---- MODULE Spec2Model ----
(***************************************************************************)
(* Model of the booking availability resolver (src/components/BookNow.jsx, *)
(* services/api.js) and of the checkout orchestration (services/api.js,    *)
(* server.js) of the Glow storefront.                                      *)
(*                                                                         *)
(* Conventions                                                             *)
(*  - An "HH:MM" string is the pair <<h, m>> that split(':').map(Number)   *)
(*    yields; the empty tuple <<>> is a missing (undefined or "") string.  *)
(*  - A Date is a day number d with getDay() = d % 7 (0 = sunday); an      *)
(*    instant is d * 1440 + minutes after local midnight.                  *)
(*  - An absent object (settings.openingHours[day], calendarBehavior) is   *)
(*    the record whose fields are all undefined: the code reads both the   *)
(*    same way through ?. and truthiness tests.                            *)
(***************************************************************************)
EXTENDS Integers, Sequences, FiniteSets, TLC

VARIABLES
    \* ---- generateTimeSlots applied to drawn inputs (SpecSlots)
    genPc,          \* "start" | "fetched" | "done"
    genDate,        \* the date argument
    genDuration,    \* durationMin
    genSettings,    \* the booking settings argument
    genAnswer,      \* data.bookings as the bookings service answers it
    genBookings,    \* the result object getBookings returned
    genSlots,       \* what generateTimeSlots returned
    \* ---- the BookNow component and its collaborators (SpecAvail)
    world,              \* what the collaborator services answer
    services,           \* useState: services
    providers,          \* useState: providers
    servicesRef,        \* servicesRef.current
    providersRef,       \* providersRef.current
    bookingSettings,    \* useState: bookingSettings
    selectedDate,       \* useState: selectedDate
    selectedService,    \* useState: selectedService
    selectedProvider,   \* useState: selectedProvider
    availableTimeSlots, \* useState: availableTimeSlots
    usingGeneralHours,  \* useState: usingGeneralHours
    loadingSlots,       \* useState: loadingSlots
    lookups,            \* the checkAvailability calls waiting for an answer
    lookupsStarted,     \* how many checkAvailability calls reached their first await
    refreshes,          \* the refreshServicesAndProviders calls waiting for their answers
    refreshesStarted,   \* how many refreshServicesAndProviders calls were made
    lastRefresh,        \* the branch the refresh answered last took: "none" | "updated" | "skipped"
    lastLog,            \* the branch in which the latest checkAvailability call ended
    \* ---- createCheckoutSession in the browser (SpecCheckout)
    coPc,               \* "cart" | "resolving" | "csrf" | "posted" | "done"
    cartItems,          \* CartContext: cartItems, the argument of createCheckoutSession
    campaignAnswer,     \* what the campaign price endpoint answers the browser
    catalogAnswer,      \* what GET /storefront/:tenant/products answers
    catalogLookups,     \* how many catalog requests the call has sent
    coItems,            \* the items of the payload
    sessionRequests,    \* the POSTs sent to the checkout-session service
    sessionAnswer,      \* the response to the POST
    coResult,           \* what createCheckoutSession returned
    locationHref,       \* window.location.href, "" while the page has not been left
    \* ---- POST /api/checkout on the server (SpecCheckout)
    srvPc,              \* "idle" | "received" | "forwarded" | "responded"
    srvRequest,         \* req.body
    srvInventory,       \* what the inventory endpoint answers
    srvCampaign,        \* what the campaign price endpoint answers
    backendRequests,    \* the POSTs forwarded to the backend
    backendAnswer,      \* the backend's response
    trackRequests,      \* the POSTs to /api/carts/track, each with how it ended
    srvResponse,        \* the response sent to the browser
    srvErrors,          \* the console.error entries of the two checkout endpoints
    \* ---- POST /api/create-checkout-session on the server (SpecCheckout)
    ccsPc,              \* "idle" | "received" | "creating" | "registering" | "responded"
    ccsRequest,         \* req.body
    stripeRequests,     \* the stripe.checkout.sessions.create calls
    ccsSession,         \* what stripe.checkout.sessions.create gave
    ccsResponse,        \* the response sent to the browser
    \* ---- the payment events sent to the portal (SpecCheckout)
    envTenant,          \* process.env.CUSTOMER_PORTAL_TENANT, "" when not set
    whPc,               \* POST /api/webhooks/stripe: "idle" | "reported" | "refused" | "responded"
    whEvent,            \* the Stripe event delivered to the webhook
    successPc,          \* the CheckoutSuccess page: "idle" | "mounted" | "tracked"
    paymentEvents,      \* the POSTs to /api/analytics/track
    \* ---- createBooking in the browser (SpecBooking)
    bkPc,               \* "called" | "csrf" | "posted" | "returned"
    bookingData,        \* the argument of createBooking
    bookingRequests,    \* the POSTs to the bookings service
    bookingAnswer,      \* the bookings service's response
    bookingResult,      \* what createBooking returned
    \* ---- the /api proxy of the server (SpecProxy)
    backendSessionCookies, \* the module-level cookie store; {} is null
    proxyInFlight,      \* the requests forwarded and not yet answered
    proxyStarted,       \* how many requests the proxy has received
    proxyForwarded,     \* the requests sent to the backend, with their headers
    proxyAnswers,       \* the responses sent to the clients
    cookieJar,          \* per client, the cookies its browser holds for the site
    \* ---- the cart of the CartProvider (SpecCart; cartItems is the one above)
    isCartOpen,         \* CartContext: isCartOpen
    addsAwaiting,       \* per product id, the addToCart calls awaiting their campaign price
    addsIssued,         \* per product id, the addToCart calls made so far
    cartOps,            \* how many cart handlers have been called
    changedById,        \* the ids removeFromCart or updateQuantity was called with
    effectLength,       \* cartItems.length when the campaign effect last ran
    effectAwaiting,     \* the carts checkCampaignPrices is awaiting prices for
    \* ---- the booking form of the BookNow component (SpecForm)
    selectedTime,       \* useState: selectedTime; <<>> is ''
    formData,           \* useState: formData, its name field
    isProcessing,       \* useState: isProcessing
    submitted,          \* useState: submitted
    formError,          \* useState: error
    submitCall,         \* the handleSubmit call under way, with the values of its render
    bookingCalls        \* the createBooking calls handleSubmit has made

genVars == <<genPc, genDate, genDuration, genSettings, genAnswer, genBookings, genSlots>>

catalogVars == <<services, providers, servicesRef, providersRef, bookingSettings>>

selectionVars == <<selectedDate, selectedService, selectedProvider>>

slotVars == <<availableTimeSlots, usingGeneralHours, loadingSlots, lookups, lookupsStarted, lastLog>>

refreshVars == <<refreshes, refreshesStarted, lastRefresh>>

availVars == <<world, catalogVars, selectionVars, slotVars, refreshVars>>

clientVars == <<coPc, cartItems, campaignAnswer, catalogAnswer, catalogLookups, coItems, sessionRequests,
                sessionAnswer, coResult, locationHref>>

checkoutEndpointVars == <<srvPc, srvRequest, srvInventory, srvCampaign, backendRequests,
                          backendAnswer, srvResponse>>

createSessionVars == <<ccsPc, ccsRequest, stripeRequests, ccsSession, ccsResponse>>

serverVars == <<checkoutEndpointVars, createSessionVars, trackRequests, srvErrors>>

portalVars == <<envTenant, whPc, whEvent, successPc, paymentEvents>>

checkoutVars == <<clientVars, serverVars, portalVars>>

bookingVars == <<bkPc, bookingData, bookingRequests, bookingAnswer, bookingResult>>

proxyVars == <<backendSessionCookies, proxyInFlight, proxyStarted, proxyForwarded, proxyAnswers,
               cookieJar>>

\* what the actions of one part leave alone
cartVars == <<isCartOpen, addsAwaiting, addsIssued, cartOps, changedById, effectLength, effectAwaiting>>

formVars == <<selectedTime, formData, isProcessing, submitted, formError, submitCall, bookingCalls>>

\* what no handler of the BookNow component touches
outsideBookNow == <<genVars, checkoutVars, bookingVars, proxyVars, cartVars>>

outsideAvail == <<outsideBookNow, formVars>>

outsideSlots == <<availVars, checkoutVars, bookingVars, proxyVars, cartVars, formVars>>

outsideCheckout == <<genVars, availVars, bookingVars, proxyVars, cartVars, formVars>>

outsideBooking == <<genVars, availVars, checkoutVars, proxyVars, cartVars, formVars>>

outsideProxy == <<genVars, availVars, checkoutVars, bookingVars, cartVars, formVars>>

\* what the cart handlers leave alone: all but cartItems and their own variables
outsideCart == <<genVars, availVars, bookingVars, proxyVars, formVars, coPc, campaignAnswer, catalogAnswer,
                 catalogLookups, coItems, sessionRequests, sessionAnswer, coResult, locationHref,
                 serverVars, portalVars>>

vars == <<genVars, availVars, checkoutVars, bookingVars, proxyVars, cartVars, formVars>>

-----------------------------------------------------------------------------
(* Bounds and input domains *)

MaxBookings == 1

MaxLookups == 2

MaxRefreshes == 2

\* how many requests the proxy serves in a run
MaxProxyRequests == 2

\* how many times the booking form is submitted in a run
MaxSubmits == 1

\* the largest quantity chosen on the product page
MaxQuantity == 2

\* how many cart handlers are called in a run
MaxCartOps == 2

MinutesPerDay == 24 * 60

NoTime == <<>>

TimeStrings == {<<9, 0>>, <<9, 30>>, <<10, 0>>, <<10, 30>>}

Dates == {1, 2}

Durations == {30, 60}

Intervals == {0, 45}

DayEntries ==
    [isOpen : {"true", "false", "undefined"},
     start  : TimeStrings \cup {NoTime},
     end    : TimeStrings \cup {NoTime}]

UndefEntry == [isOpen |-> "undefined", start |-> NoTime, end |-> NoTime]

ClosedEntry == [isOpen |-> "false", start |-> <<9, 0>>, end |-> <<10, 30>>]

\* a day open until shortly before midnight
LateEntry == [isOpen |-> "true", start |-> <<22, 0>>, end |-> <<23, 45>>]

CalendarBehaviors ==
    [startTime        : {NoTime, <<9, 0>>},
     endTime          : {NoTime, <<10, 30>>},
     timeSlotInterval : Intervals]

NoCalendarBehavior == [startTime |-> NoTime, endTime |-> NoTime, timeSlotInterval |-> 0]

\* [from, to) in minutes after midnight of the booked day
BookingSpans == {<<555, 585>>, <<570, 600>>, <<600, 660>>}

BookingsOn(date) ==
    {[start |-> date * MinutesPerDay + sp[1], end |-> date * MinutesPerDay + sp[2], status |-> st] :
        sp \in BookingSpans, st \in {"confirmed", "canceled"}}

AnswersOn(date) == {A \in SUBSET BookingsOn(date) : Cardinality(A) <= MaxBookings}

-----------------------------------------------------------------------------
(* services/api.js *)

\* faulty variant: the status filter left out (every booking of the answer is kept)
activeBookings_unfiltered(bookings) == bookings

\* getBookings keeps the bookings whose status is not 'canceled'
activeBookings(bookings) == {b \in bookings : b.status # "canceled"}

\* getBookings: a non-2xx answer or a throw gives { success: false, bookings: [] }
getBookings(ok, bookings) ==
    IF ok THEN [success |-> TRUE, bookings |-> activeBookings(bookings)]
          ELSE [success |-> FALSE, bookings |-> {}]

\* checkAvailability: bookingsResult.success ? (bookingsResult.bookings || []) : []
existingBookingsOf(bookingsResult) ==
    IF bookingsResult.success THEN bookingsResult.bookings ELSE {}

-----------------------------------------------------------------------------
(* BookNow.jsx: generateTimeSlots *)

DayNames == <<"sunday", "monday", "tuesday", "wednesday", "thursday", "friday", "saturday">>

dayOfWeek(date) == DayNames[(date % 7) + 1]

Truthy(str) == Len(str) > 0

\* settings?.openingHours?.[dayOfWeek]
dayOpeningHours(date, settings) == settings.openingHours[dayOfWeek(date)]

usesDayHours(doh) == doh.isOpen # "false" /\ Truthy(doh.start) /\ Truthy(doh.end)

\* faulty variant: the isOpen === false branch left out
isClosedDay_ignored(doh) == FALSE

isClosedDay(doh) == doh.isOpen = "false"

usesCalendarBehavior(cb) == Truthy(cb.startTime) /\ Truthy(cb.endTime)

NoHour == -1

startHour(doh, cb) ==
    IF usesDayHours(doh) THEN doh.start[1]
    ELSE IF usesCalendarBehavior(cb) THEN cb.startTime[1]
    ELSE NoHour

endHour(doh, cb) ==
    IF usesDayHours(doh) THEN doh.end[1] + 1
    ELSE IF usesCalendarBehavior(cb) THEN cb.endTime[1] + 1
    ELSE NoHour

slotInterval(cb) == IF cb.timeSlotInterval # 0 THEN cb.timeSlotInterval ELSE 30

\* actualEndHour * 60 + actualEndMinutes, or NoHour when neither end is set
closingMinutes(doh, cb) ==
    IF doh.isOpen # "false" /\ Truthy(doh.end) THEN doh.end[1] * 60 + doh.end[2]
    ELSE IF Truthy(cb.endTime) THEN cb.endTime[1] * 60 + cb.endTime[2]
    ELSE NoHour

startsAtOrAfterClosing(slotStartMinutes, closing) ==
    closing # NoHour /\ slotStartMinutes >= closing

\* faulty variant: > in place of >= (a slot may end exactly at closing)
endsAtOrAfterClosing_strict(slotEndMinutes, closing) ==
    closing # NoHour /\ slotEndMinutes > closing

endsAtOrAfterClosing(slotEndMinutes, closing) ==
    closing # NoHour /\ slotEndMinutes >= closing

\* faulty variant: closed intervals (<= and >=), so that adjacent slots conflict
hasConflict_closed(slotStart, slotEnd, existingBookings) ==
    \E booking \in existingBookings : slotStart <= booking.end /\ slotEnd >= booking.start

hasConflict(slotStart, slotEnd, existingBookings) ==
    \E booking \in existingBookings : slotStart < booking.end /\ slotEnd > booking.start

\* the values the inner loop gives minute: 0, i, 2i, ... below 60
minuteSteps(interval) == {minute \in 0..59 : minute % interval = 0}

\* the (hour, minute) pairs the two loops visit, as minutes after midnight
candidateStarts(doh, cb) ==
    {hour * 60 + minute :
        hour \in startHour(doh, cb)..(endHour(doh, cb) - 1),
        minute \in minuteSteps(slotInterval(cb))}

RECURSIVE Ascending(_)
Ascending(S) ==
    IF S = {} THEN <<>>
    ELSE LET lo == CHOOSE x \in S : \A y \in S : x <= y
         IN  <<lo>> \o Ascending(S \ {lo})

\* the candidates that pass the closing checks and the conflict check
offeredStarts(date, durationMin, existingBookings, doh, cb) ==
    {m \in candidateStarts(doh, cb) :
        LET slotStart == date * MinutesPerDay + m
            slotEnd   == slotStart + durationMin
            closing   == closingMinutes(doh, cb)
        IN  /\ ~startsAtOrAfterClosing(m, closing)
            /\ ~endsAtOrAfterClosing(slotEnd % MinutesPerDay, closing)
            /\ ~hasConflict(slotStart, slotEnd, existingBookings)}

makeSlot(date, m, durationMin) ==
    [start   |-> date * MinutesPerDay + m,
     end     |-> date * MinutesPerDay + m + durationMin,
     display |-> <<m \div 60, m % 60>>]

generateTimeSlots(date, durationMin, existingBookings, settings) ==
    LET doh == dayOpeningHours(date, settings)
        cb  == settings.calendarBehavior
    IN  IF ~usesDayHours(doh) /\ isClosedDay(doh) THEN <<>>
        ELSE IF startHour(doh, cb) = NoHour \/ endHour(doh, cb) = NoHour THEN <<>>
        ELSE LET order == Ascending(offeredStarts(date, durationMin, existingBookings, doh, cb))
             IN  [i \in 1..Len(order) |-> makeSlot(date, order[i], durationMin)]

OpeningHoursOf(monday, tuesday) ==
    [d \in {DayNames[i] : i \in 1..7} |->
        IF d = "monday" THEN monday ELSE IF d = "tuesday" THEN tuesday ELSE UndefEntry]

-----------------------------------------------------------------------------
(* services/api.js: createCheckoutSession and the catalog lookup it uses *)

\* the longest cart
MaxCart == 2

\* API_CONFIG.TENANT, the tenant the browser is configured with
API_CONFIG_TENANT == "Glow Hairdressing"

\* the values of process.env.CUSTOMER_PORTAL_TENANT: not set, or another tenant
EnvTenants == {"", "acme"}

\* const TENANT = process.env.CUSTOMER_PORTAL_TENANT || 'glowhairdressing'
TENANT(env) == IF env # "" THEN env ELSE "glowhairdressing"

\* cart items as addToCart stores them; "" is a missing (undefined, null or
\* empty) string
CartItems ==
    {[articleNumber |-> "A-1", variantId |-> "",    productId |-> "prod_1", priceId |-> "price_1", quantity |-> 1,
      campaignPriceId |-> "", campaignPriceChecked |-> FALSE],
     [articleNumber |-> "",    variantId |-> "V-1", productId |-> "prod_1", priceId |-> "price_1", quantity |-> 2,
      campaignPriceId |-> "", campaignPriceChecked |-> FALSE],
     [articleNumber |-> "",    variantId |-> "",    productId |-> "prod_1", priceId |-> "price_1", quantity |-> 1,
      campaignPriceId |-> "", campaignPriceChecked |-> FALSE],
     [articleNumber |-> "",    variantId |-> "",    productId |-> "prod_1", priceId |-> "",        quantity |-> 1,
      campaignPriceId |-> "", campaignPriceChecked |-> FALSE],
     [articleNumber |-> "",    variantId |-> "",    productId |-> "",       priceId |-> "",        quantity |-> 1,
      campaignPriceId |-> "", campaignPriceChecked |-> FALSE]}

Carts == UNION {[1..n -> CartItems] : n \in 1..MaxCart}

\* what GET /api/campaigns/price/:productId answers: the fetch rejects (no
\* connection, timeout, abort), a non-2xx status, a 2xx answer that is no JSON,
\* or a JSON body
CampaignAnswers ==
    {[outcome |-> "networkError", success |-> FALSE, hasCampaignPrice |-> FALSE, priceId |-> ""],
     [outcome |-> "http404",      success |-> FALSE, hasCampaignPrice |-> FALSE, priceId |-> ""],
     [outcome |-> "http500",      success |-> TRUE,  hasCampaignPrice |-> TRUE,  priceId |-> "price_c"],
     [outcome |-> "html",         success |-> FALSE, hasCampaignPrice |-> FALSE, priceId |-> ""],
     [outcome |-> "ok",           success |-> TRUE,  hasCampaignPrice |-> FALSE, priceId |-> ""],
     [outcome |-> "ok",           success |-> TRUE,  hasCampaignPrice |-> TRUE,  priceId |-> "price_c"]}

\* getCampaignPrice(productId, regularPriceId)
getCampaignPrice(productId, regularPriceId, answer) ==
    IF productId = "" THEN [success |-> TRUE, priceId |-> regularPriceId, hasCampaign |-> FALSE]
    ELSE IF answer.outcome # "ok" THEN [success |-> TRUE, priceId |-> regularPriceId, hasCampaign |-> FALSE]
    ELSE IF answer.success /\ answer.hasCampaignPrice
        THEN [success |-> TRUE, priceId |-> answer.priceId, hasCampaign |-> TRUE]
    ELSE [success |-> TRUE, priceId |-> regularPriceId, hasCampaign |-> FALSE]

\* CartContext: item.campaignPriceId || item.priceId
getCheckoutPriceId(item) ==
    IF item.campaignPriceId # "" THEN item.campaignPriceId ELSE item.priceId

\* CartContext: what checkCampaignPrices makes of one item
withCampaignPrice(item, answer) ==
    IF item.productId # "" /\ ~item.campaignPriceChecked
        THEN [item EXCEPT !.campaignPriceId = getCampaignPrice(item.productId, item.priceId, answer).priceId,
                          !.campaignPriceChecked = TRUE]
        ELSE item

\* data.products of GET /storefront/:tenant/products
CatalogListings ==
    {<<>>,
     <<[id |-> "prod_1", variants |-> <<[stripePriceId |-> "price_1", articleNumber |-> "A-9"]>>]>>,
     <<[id |-> "prod_1", variants |-> <<[stripePriceId |-> "price_1", articleNumber |-> ""]>>]>>,
     <<[id |-> "prod_1", variants |-> <<[stripePriceId |-> "price_5", articleNumber |-> "A-5"],
                                        [stripePriceId |-> "price_1", articleNumber |-> ""]>>]>>,
     <<[id |-> "prod_2", variants |-> <<[stripePriceId |-> "price_2", articleNumber |-> "A-7"]>>],
       [id |-> "prod_1", variants |-> <<[stripePriceId |-> "price_3", articleNumber |-> "A-8"],
                                        [stripePriceId |-> "price_4", articleNumber |-> "A-6"]>>]>>}

CatalogResponses ==
    {[outcome |-> o, success |-> FALSE, products |-> <<>>] : o \in {"networkError", "http500", "html", "ok"}}
        \cup {[outcome |-> "ok", success |-> TRUE, products |-> p] : p \in CatalogListings}

RECURSIVE allVariants(_)
\* the variants in the order the nested for loops visit them
allVariants(products) ==
    IF products = <<>> THEN <<>>
    ELSE Head(products).variants \o allVariants(Tail(products))

Least(S) == CHOOSE i \in S : \A j \in S : i <= j

\* fetchProductArticleNumber: null is ""
fetchProductArticleNumber(stripePriceId, productId, response) ==
    IF stripePriceId = "" /\ productId = "" THEN ""
    ELSE IF response.outcome # "ok" \/ ~response.success THEN ""
    ELSE LET variants == allVariants(response.products)
             byPrice == {i \in 1..Len(variants) : variants[i].stripePriceId = stripePriceId}
             byProduct == {i \in 1..Len(response.products) :
                              /\ response.products[i].id = productId
                              /\ Len(response.products[i].variants) > 0
                              /\ response.products[i].variants[1].articleNumber # ""}
         IN  IF byPrice # {} THEN variants[Least(byPrice)].articleNumber
             ELSE IF productId # "" /\ byProduct # {}
                 THEN response.products[Least(byProduct)].variants[1].articleNumber
             ELSE ""

\* let articleNumber = item.articleNumber || item.variantId, then the catalog lookup
resolvedArticleNumber(item, response) ==
    IF item.articleNumber # "" THEN item.articleNumber
    ELSE IF item.variantId # "" THEN item.variantId
    ELSE fetchProductArticleNumber(getCheckoutPriceId(item), item.productId, response)

\* the calls of fetchProductArticleNumber that reach the catalog
needsCatalog(item) ==
    /\ item.articleNumber = ""
    /\ item.variantId = ""
    /\ (getCheckoutPriceId(item) # "" \/ item.productId # "")

\* item.articleNumber = articleNumber, when the lookup found one
withArticleNumber(item, response) ==
    IF item.articleNumber = "" /\ item.variantId = ""
       /\ fetchProductArticleNumber(getCheckoutPriceId(item), item.productId, response) # ""
        THEN [item EXCEPT !.articleNumber = fetchProductArticleNumber(getCheckoutPriceId(item), item.productId, response)]
        ELSE item

\* const items = itemsWithArticleNumbers.map(...)
payloadItems(cart, response) ==
    [i \in 1..Len(cart) |->
        LET articleNumber == resolvedArticleNumber(cart[i], response)
        IN  [variantId |-> IF articleNumber # "" THEN articleNumber ELSE cart[i].variantId,
             quantity |-> cart[i].quantity,
             stripePriceId |-> getCheckoutPriceId(cart[i])]]

\* faulty variant: only the first item is validated
missingVariantIds_firstOnly(items) ==
    {i \in 1..Len(items) : i = 1 /\ items[i].variantId = ""}

\* const missingVariantIds = items.filter(item => !item.variantId)
missingVariantIds(items) ==
    {i \in 1..Len(items) : items[i].variantId = ""}

\* ---- the answers of the checkout-session service

CheckoutUrl == "https://checkout.stripe.com/c/cs_1"

NullBody ==
    [null |-> TRUE, success |-> "undefined", checkoutUrl |-> "", error |-> "", sessionId |-> ""]

\* success is the JSON success member: true, false or absent; error is the first
\* of data.error, data.message, data.errorMessage that is set
JsonBodies ==
    {NullBody} \cup
    {b \in [null : {FALSE}, success : {"true", "false", "undefined"},
            checkoutUrl : {"", CheckoutUrl},
            error : {"", "Out of stock", "Insufficient stock", "Payment failed"},
            sessionId : {"", "cs_1"}] :
        /\ b.error # "" => (b.success # "true" /\ b.checkoutUrl = "")
        /\ b.sessionId # "" => b.checkoutUrl # ""}

Statuses == {200, 403, 500}

SessionResponses ==
    {[outcome |-> "networkError", status |-> 500, format |-> "html", body |-> NullBody]}
        \cup {[outcome |-> "answered", status |-> s, format |-> f, body |-> NullBody] :
                 s \in Statuses, f \in {"html", "malformed"}}
        \cup {[outcome |-> "answered", status |-> s, format |-> "json", body |-> b] :
                 s \in Statuses, b \in JsonBodies}

NoAnswer == [outcome |-> "none", status |-> 500, format |-> "html", body |-> NullBody]

\* response.ok
responseOk(response) == response.status >= 200 /\ response.status <= 299

\* faulty variant: the checkout URL is not asked for
sessionCreated_noUrl(response) ==
    /\ responseOk(response)
    /\ response.body.success = "true"

\* response.ok && data.success && data.checkoutUrl
sessionCreated(response) ==
    /\ responseOk(response)
    /\ response.body.success = "true"
    /\ response.body.checkoutUrl # ""

\* the message createCheckoutSession reports for a refused session
errorMessage(body) ==
    IF body.null \/ body.error = "" THEN "Kunde inte skapa checkout-session. Forsok igen."
    ELSE IF body.error = "Out of stock"
        THEN "Produkten ar tyvarr slutsald."
    ELSE IF body.error = "Insufficient stock" THEN "Lagerproblem: Insufficient stock"
    ELSE body.error

CaughtError == [success |-> FALSE, status |-> 500, error |-> "Ett fel uppstod vid checkout. Forsok igen."]

\* what createCheckoutSession returns once the fetch has settled
checkoutResult(response) ==
    IF response.outcome = "networkError" THEN CaughtError
    \* response.json() rejects; response.text() in the handler then rejects too, the
    \* body being read already, and the outer catch answers
    ELSE IF response.format = "malformed" THEN CaughtError
    ELSE IF response.format = "html"
        THEN [success |-> FALSE, status |-> response.status,
              error |-> IF response.status = 403 THEN "Ogiltig eller saknad CSRF-token."
                        ELSE "Serverfel"]
    ELSE IF response.body.null /\ responseOk(response) THEN CaughtError
    ELSE IF sessionCreated(response) THEN [success |-> TRUE, status |-> 0, error |-> ""]
    ELSE [success |-> FALSE, status |-> response.status, error |-> errorMessage(response.body)]

\* window.location.href after the call
redirectTarget(response, href) ==
    IF checkoutResult(response).success THEN response.body.checkoutUrl ELSE href

NoResult == [success |-> FALSE, status |-> 0, error |-> ""]

\* CartContext: the effect on cartItems.length asks for the campaign price of
\* every item that has a productId and was not checked yet
checkCampaignPrices ==
    /\ coPc = "cart"
    /\ \E i \in 1..Len(cartItems) : cartItems[i].productId # "" /\ ~cartItems[i].campaignPriceChecked
    /\ cartItems' = [i \in 1..Len(cartItems) |-> withCampaignPrice(cartItems[i], campaignAnswer)]
    /\ UNCHANGED <<coPc, campaignAnswer, catalogAnswer, catalogLookups, coItems, sessionRequests,
                   sessionAnswer, coResult, locationHref, serverVars, portalVars, outsideCheckout>>

\* createCheckoutSession(cartItems, getCheckoutPriceId), up to the catalog lookups
createCheckoutSession ==
    /\ coPc = "cart"
    /\ Len(cartItems) > 0
    /\ coPc' = "resolving"
    /\ catalogLookups' = Cardinality({i \in 1..Len(cartItems) : needsCatalog(cartItems[i])})
    /\ UNCHANGED <<cartItems, campaignAnswer, catalogAnswer, coItems, sessionRequests, sessionAnswer,
                   coResult, locationHref, serverVars, portalVars, outsideCheckout>>

\* the catalog lookups have settled: the payload is built and validated
CatalogAnswered ==
    /\ coPc = "resolving"
    /\ cartItems' = [i \in 1..Len(cartItems) |-> withArticleNumber(cartItems[i], catalogAnswer)]
    /\ LET items == payloadItems(cartItems, catalogAnswer)
       IN  IF missingVariantIds(items) # {}
           THEN /\ coResult' = [success |-> FALSE, status |-> 400,
                                error |-> "Nagra produkter saknar artikelnummer (articleNumber)."]
                /\ coPc' = "done"
                /\ UNCHANGED coItems
           ELSE /\ coItems' = items
                /\ coPc' = "csrf"
                /\ UNCHANGED coResult
    /\ UNCHANGED <<campaignAnswer, catalogAnswer, catalogLookups, sessionRequests, sessionAnswer,
                   locationHref, serverVars, portalVars, outsideCheckout>>

\* getCSRFToken has returned ('' when no token could be had): the POST is sent
CsrfAnswered(csrfToken) ==
    /\ coPc = "csrf"
    /\ sessionRequests' = Append(sessionRequests, [items |-> coItems, csrfToken |-> csrfToken,
                                                    tenant |-> API_CONFIG_TENANT])
    /\ coPc' = "posted"
    /\ UNCHANGED <<cartItems, campaignAnswer, catalogAnswer, catalogLookups, coItems, sessionAnswer,
                   coResult, locationHref, serverVars, portalVars, outsideCheckout>>

\* the POST to /storefront/:tenant/checkout has settled
SessionAnswered(response) ==
    /\ coPc = "posted"
    /\ sessionAnswer' = response
    /\ coResult' = checkoutResult(response)
    /\ locationHref' = redirectTarget(response, locationHref)
    /\ coPc' = "done"
    /\ UNCHANGED <<cartItems, campaignAnswer, catalogAnswer, catalogLookups, coItems, sessionRequests,
                   serverVars, portalVars, outsideCheckout>>

-----------------------------------------------------------------------------
(* server.js: POST /api/checkout *)

NoStock == -1

ServerItems ==
    {[type |-> "product",   variantKey |-> "VK-1", productId |-> "prod_1", stripePriceId |-> "price_1", quantity |-> 1],
     [type |-> "product",   variantKey |-> "",     productId |-> "prod_1", stripePriceId |-> "price_1", quantity |-> 2],
     [type |-> "product",   variantKey |-> "",     productId |-> "",       stripePriceId |-> "price_1", quantity |-> 1],
     [type |-> "gift_card", variantKey |-> "",     productId |-> "",       stripePriceId |-> "price_g", quantity |-> 1]}

\* req.body
ServerRequests ==
    [items : UNION {[1..n -> ServerItems] : n \in 0..MaxCart},
     successUrl : {"", "https://glow.example/checkout/success"},
     cancelUrl : {"https://glow.example/checkout/cancel"}]

NoRequest == [items |-> <<>>, successUrl |-> "", cancelUrl |-> ""]

\* what GET /api/inventory/public/:tenant/:productId answers; stock NoStock is null
InventoryAnswers ==
    {[found |-> FALSE, outOfStock |-> FALSE, stock |-> NoStock],
     [found |-> TRUE,  outOfStock |-> TRUE,  stock |-> 0],
     [found |-> TRUE,  outOfStock |-> FALSE, stock |-> 1],
     [found |-> TRUE,  outOfStock |-> FALSE, stock |-> NoStock]}

\* the first item the inventory loop refuses, 0 when it refuses none
refusedByInventory(items, inventory) ==
    LET refused == {i \in 1..Len(items) :
                       /\ items[i].type # "gift_card"
                       /\ items[i].productId # ""
                       /\ inventory.found
                       /\ \/ inventory.outOfStock
                          \/ inventory.stock # NoStock /\ inventory.stock < items[i].quantity}
    IN  IF refused = {} THEN 0 ELSE Least(refused)

\* the refusal the inventory step writes itself from the inventory record
inventoryError(items, inventory) ==
    IF inventory.outOfStock THEN "Product is out of stock"
    ELSE "Insufficient stock for product. Available: 1"

\* `fallback-${index}`
FallbackIds == <<"fallback-0", "fallback-1", "fallback-2", "fallback-3">>

\* faulty variant: the campaign answer is used whatever its status
serverPriceId_anyStatus(item, campaign) ==
    IF item.productId # "" /\ item.stripePriceId # ""
       /\ campaign.hasCampaignPrice /\ campaign.priceId # ""
        THEN campaign.priceId
        ELSE item.stripePriceId

\* let priceId = item.stripePriceId, replaced when the campaign lookup answers
\* 2xx with a JSON body that names a campaign price; every failure is caught
serverPriceId(item, campaign) ==
    IF item.productId # "" /\ item.stripePriceId # ""
       /\ campaign.outcome = "ok"
       /\ campaign.hasCampaignPrice /\ campaign.priceId # ""
        THEN campaign.priceId
        ELSE item.stripePriceId

\* const backendItems = await Promise.all(items.map(...))
backendItems(items, campaign) ==
    [i \in 1..Len(items) |->
        [variantId |-> IF items[i].variantKey # "" THEN items[i].variantKey
                       ELSE IF items[i].productId # "" THEN items[i].productId
                       ELSE FallbackIds[i],
         quantity |-> items[i].quantity,
         stripePriceId |-> serverPriceId(items[i], campaign)]]

Refusal(status, error) ==
    [status |-> status, success |-> FALSE, error |-> error, checkoutUrl |-> "", sessionId |-> ""]

NoResponse == [status |-> 0, success |-> FALSE, error |-> "", checkoutUrl |-> "", sessionId |-> ""]

\* the request is validated, stock is checked, prices are resolved and the
\* session request is forwarded to the backend
ServerCheckoutReceived ==
    /\ srvPc = "received"
    /\ IF Len(srvRequest.items) = 0
           THEN /\ srvResponse' = Refusal(400, "Items are required")
                /\ srvPc' = "responded"
                /\ UNCHANGED backendRequests
       ELSE IF srvRequest.successUrl = "" \/ srvRequest.cancelUrl = ""
           THEN /\ srvResponse' = Refusal(400, "successUrl and cancelUrl are required")
                /\ srvPc' = "responded"
                /\ UNCHANGED backendRequests
       ELSE IF refusedByInventory(srvRequest.items, srvInventory) # 0
           THEN /\ srvResponse' = Refusal(400, inventoryError(srvRequest.items, srvInventory))
                /\ srvPc' = "responded"
                /\ UNCHANGED backendRequests
       ELSE /\ backendRequests' = Append(backendRequests,
                   [items |-> backendItems(srvRequest.items, srvCampaign),
                    successUrl |-> srvRequest.successUrl,
                    cancelUrl |-> srvRequest.cancelUrl,
                    tenant |-> TENANT(envTenant)])
            /\ srvPc' = "forwarded"
            /\ UNCHANGED srvResponse
    /\ UNCHANGED <<srvRequest, srvInventory, srvCampaign, backendAnswer, trackRequests,
                   srvErrors, createSessionVars, clientVars, portalVars, outsideCheckout>>

\* the response POST /api/checkout gives once the backend has answered
serverResponse(response) ==
    IF response.outcome = "networkError" THEN Refusal(500, "Failed to create checkout session")
    ELSE IF response.format = "html" THEN Refusal(response.status, "Invalid response from checkout service")
    \* a body that does not parse, or parses to null, ends in the outer catch
    ELSE IF response.format = "malformed" \/ response.body.null THEN Refusal(500, "TypeError")
    ELSE IF ~responseOk(response)
        THEN Refusal(response.status,
                     IF response.body.error # "" THEN response.body.error ELSE "Checkout failed")
    ELSE IF response.body.success # "true" \/ response.body.checkoutUrl = ""
        THEN Refusal(500, "Invalid response from checkout service")
    ELSE [status |-> 200, success |-> TRUE, error |-> "", checkoutUrl |-> response.body.checkoutUrl,
          sessionId |-> response.body.sessionId]

\* the console.error entries written while the backend's answer is handled
backendErrors(response) ==
    IF response.outcome = "networkError" \/ response.format = "malformed" THEN {"Error processing checkout"}
    ELSE IF response.format = "html" THEN {"Backend returned non-JSON response"}
    ELSE IF response.body.null THEN {"Error processing checkout"}
    ELSE IF ~responseOk(response) THEN {"Backend checkout failed"}
    ELSE IF response.body.success # "true" \/ response.body.checkoutUrl = ""
        THEN {"Invalid response from backend"}
    ELSE {}

\* Step 8 runs when the session was created and carries a sessionId
registersSession(response) ==
    /\ serverResponse(response).success
    /\ response.body.sessionId # ""

\* how a POST to /api/carts/track ends: a 2xx answer with success true, a 2xx
\* answer with success false, a non-2xx answer, or a throw (the fetch rejects or
\* the body does not parse)
TrackOutcomes == {"ok", "successFalse", "non2xx", "throws"}

\* the backend has answered; a created session that carries an id is registered
\* for abandoned-cart tracking before the response is sent
ServerBackendAnswered(response) ==
    /\ srvPc = "forwarded"
    /\ backendAnswer' = response
    /\ srvErrors' = srvErrors \cup backendErrors(response)
    /\ IF registersSession(response)
           THEN /\ trackRequests' = Append(trackRequests, [sessionId |-> response.body.sessionId,
                                                           tenant |-> TENANT(envTenant),
                                                           outcome |-> "pending"])
                /\ srvPc' = "registering"
                /\ UNCHANGED srvResponse
           ELSE /\ srvResponse' = serverResponse(response)
                /\ srvPc' = "responded"
                /\ UNCHANGED trackRequests
    /\ UNCHANGED <<srvRequest, srvInventory, srvCampaign, backendRequests,
                   createSessionVars, clientVars, portalVars, outsideCheckout>>

\* faulty variant: a registration that throws fails the checkout
responseAfterRegistration_failing(response, trackOutcome) ==
    IF trackOutcome = "throws" THEN Refusal(500, "Failed to create checkout session")
    ELSE serverResponse(response)

\* Step 9: the response sent once Step 8 is over, however it ended
responseAfterRegistration(response, trackOutcome) == serverResponse(response)

\* Step 8 logs only what its catch receives
registrationErrors(trackOutcome) ==
    IF trackOutcome = "throws" THEN {"Error registering session"} ELSE {}

\* the registration has ended; the response is sent
ServerTrackAnswered(trackOutcome) ==
    /\ srvPc = "registering"
    /\ trackRequests' = [trackRequests EXCEPT ![Len(trackRequests)].outcome = trackOutcome]
    /\ srvErrors' = srvErrors \cup registrationErrors(trackOutcome)
    /\ srvResponse' = responseAfterRegistration(backendAnswer, trackOutcome)
    /\ srvPc' = "responded"
    /\ UNCHANGED <<srvRequest, srvInventory, srvCampaign, backendRequests, backendAnswer,
                   createSessionVars, clientVars, portalVars, outsideCheckout>>

-----------------------------------------------------------------------------
(* server.js: POST /api/create-checkout-session *)

\* req.body: lineItems, mode; priceType is what stripe.prices.retrieve tells of
\* the first price ("throws" when it fails)
CreateSessionRequests ==
    [lineItems : {<<>>, <<[price |-> "price_1", quantity |-> 1]>>},
     mode : {"", "subscription"},
     priceType : {"recurring", "one_time", "throws"}]

NoCreateSessionRequest == [lineItems |-> <<>>, mode |-> "", priceType |-> "one_time"]

\* what stripe.checkout.sessions.create gives: a session, or it throws
StripeAnswers ==
    {[created |-> FALSE, id |-> "", url |-> ""],
     [created |-> TRUE, id |-> "cs_2", url |-> "https://checkout.stripe.com/c/cs_2"]}

NoSession == [created |-> FALSE, id |-> "", url |-> ""]

NoCreateSessionResponse == [status |-> 0, error |-> "", sessionId |-> "", url |-> ""]

\* let checkoutMode = mode || 'payment', 'subscription' for a recurring price
checkoutMode(request) ==
    IF request.mode # "" THEN request.mode
    ELSE IF request.priceType = "recurring" THEN "subscription"
    ELSE "payment"

\* the request is validated and the session is asked of Stripe
CreateSessionReceived ==
    /\ ccsPc = "received"
    /\ IF Len(ccsRequest.lineItems) = 0
           THEN /\ ccsResponse' = [status |-> 400, error |-> "Line items are required",
                                   sessionId |-> "", url |-> ""]
                /\ ccsPc' = "responded"
                /\ UNCHANGED stripeRequests
           ELSE /\ stripeRequests' = Append(stripeRequests,
                       [mode |-> checkoutMode(ccsRequest), line_items |-> ccsRequest.lineItems])
                /\ ccsPc' = "creating"
                /\ UNCHANGED ccsResponse
    /\ UNCHANGED <<ccsRequest, ccsSession, trackRequests, srvErrors, checkoutEndpointVars,
                   clientVars, portalVars, outsideCheckout>>

\* stripe.checkout.sessions.create has settled; a created session is registered
\* for abandoned-cart tracking
StripeAnswered(session) ==
    /\ ccsPc = "creating"
    /\ ccsSession' = session
    /\ IF session.created
           THEN /\ trackRequests' = Append(trackRequests, [sessionId |-> session.id,
                                                           tenant |-> TENANT(envTenant),
                                                           outcome |-> "pending"])
                /\ ccsPc' = "registering"
                /\ UNCHANGED <<ccsResponse, srvErrors>>
           ELSE /\ srvErrors' = srvErrors \cup {"Error creating checkout session"}
                /\ ccsResponse' = [status |-> 500, error |-> "Failed to create checkout session",
                                   sessionId |-> "", url |-> ""]
                /\ ccsPc' = "responded"
                /\ UNCHANGED trackRequests
    /\ UNCHANGED <<ccsRequest, stripeRequests, checkoutEndpointVars, clientVars, portalVars, outsideCheckout>>

\* a non-2xx answer is thrown into the catch, success false is logged on its own
createSessionRegistrationErrors(trackOutcome) ==
    IF trackOutcome \in {"throws", "non2xx"} THEN {"Error registering session"}
    ELSE IF trackOutcome = "successFalse" THEN {"Failed to register session"}
    ELSE {}

\* the registration has ended; res.json({ sessionId: session.id, url: session.url })
CreateSessionTrackAnswered(trackOutcome) ==
    /\ ccsPc = "registering"
    /\ trackRequests' = [trackRequests EXCEPT ![Len(trackRequests)].outcome = trackOutcome]
    /\ srvErrors' = srvErrors \cup createSessionRegistrationErrors(trackOutcome)
    /\ ccsResponse' = [status |-> 200, error |-> "", sessionId |-> ccsSession.id, url |-> ccsSession.url]
    /\ ccsPc' = "responded"
    /\ UNCHANGED <<ccsRequest, stripeRequests, ccsSession, checkoutEndpointVars,
                   clientVars, portalVars, outsideCheckout>>

-----------------------------------------------------------------------------
(* server.js: POST /api/webhooks/stripe, and the CheckoutSuccess page *)

\* the events Stripe delivers: secret is whether STRIPE_WEBHOOK_SECRET is set,
\* signed whether constructEvent accepts the signature, retrieved whether
\* stripe.checkout.sessions.retrieve gives the session
StripeEvents ==
    {[secret |-> FALSE, signed |-> TRUE, type |-> "checkout.session.completed",
      sessionId |-> "cs_1", payment_status |-> "paid", retrieved |-> TRUE],
     [secret |-> TRUE, signed |-> FALSE, type |-> "checkout.session.completed",
      sessionId |-> "cs_1", payment_status |-> "paid", retrieved |-> TRUE],
     [secret |-> TRUE, signed |-> TRUE, type |-> "payment_intent.succeeded",
      sessionId |-> "", payment_status |-> "paid", retrieved |-> TRUE],
     [secret |-> TRUE, signed |-> TRUE, type |-> "checkout.session.completed",
      sessionId |-> "cs_1", payment_status |-> "paid", retrieved |-> FALSE]}
        \cup {[secret |-> TRUE, signed |-> TRUE, type |-> "checkout.session.completed",
               sessionId |-> id, payment_status |-> st, retrieved |-> TRUE] :
                 id \in {"cs_1", "cs_2", "cs_9"}, st \in {"paid", "unpaid"}}

NoEvent ==
    [secret |-> FALSE, signed |-> FALSE, type |-> "", sessionId |-> "", payment_status |-> "",
     retrieved |-> FALSE]

\* paymentData of the webhook and the X-Tenant header it is posted with
paymentData(event) ==
    [via |-> "webhook",
     sessionId |-> event.sessionId,
     status |-> IF event.payment_status = "paid" THEN "completed" ELSE "open",
     tenant |-> "glowhairdressing"]

\* the webhook is called: the event is verified and a completed checkout session
\* is reported to the portal. Events are delivered once an endpoint has answered
\* with a checkout session.
WebhookReceived(event) ==
    /\ whPc = "idle"
    /\ \/ srvPc = "responded" /\ srvResponse.success
       \/ ccsPc = "responded" /\ ccsResponse.status = 200
    /\ whEvent' = event
    /\ IF ~event.secret \/ ~event.signed
           THEN /\ whPc' = "refused"
                /\ srvErrors' = IF event.secret
                                    THEN srvErrors \cup {"Webhook signature verification failed"}
                                    ELSE srvErrors
                /\ UNCHANGED paymentEvents
       ELSE IF event.type # "checkout.session.completed"
           THEN /\ whPc' = "responded"
                /\ UNCHANGED <<paymentEvents, srvErrors>>
       ELSE IF ~event.retrieved
           THEN /\ whPc' = "responded"
                /\ srvErrors' = srvErrors \cup {"Error processing payment webhook"}
                /\ UNCHANGED paymentEvents
       ELSE /\ paymentEvents' = Append(paymentEvents, paymentData(event))
            /\ whPc' = "reported"
            /\ UNCHANGED srvErrors
    /\ UNCHANGED <<envTenant, successPc, checkoutEndpointVars, createSessionVars, trackRequests,
                   clientVars, outsideCheckout>>

\* how the POST to /api/analytics/track ends for the webhook
PortalOutcomes == {"ok", "notSaved", "throws"}

\* the portal has answered the webhook's report: res.json({ received: true })
WebhookPortalAnswered(portalOutcome) ==
    /\ whPc = "reported"
    /\ srvErrors' = IF portalOutcome = "notSaved" THEN srvErrors \cup {"Payment not saved"}
                    ELSE IF portalOutcome = "throws"
                        THEN srvErrors \cup {"Error processing payment webhook"}
                    ELSE srvErrors
    /\ whPc' = "responded"
    /\ UNCHANGED <<envTenant, whEvent, successPc, paymentEvents, checkoutEndpointVars,
                   createSessionVars, trackRequests, clientVars, outsideCheckout>>

\* searchParams.get('session_id') of the success page; "" is no parameter
SuccessSessionIds == {"", "cs_1", "cs_9"}

\* CheckoutSuccess is rendered after the browser was sent to the checkout: with a
\* session_id it sends trackEvent('customer_payment', {sessionId, status: 'completed'})
CheckoutSuccess(sessionId) ==
    /\ successPc = "idle"
    /\ locationHref # ""
    /\ IF sessionId # ""
           THEN /\ paymentEvents' = Append(paymentEvents,
                       [via |-> "CheckoutSuccess", sessionId |-> sessionId, status |-> "completed",
                        tenant |-> API_CONFIG_TENANT])
                /\ successPc' = "tracked"
           ELSE /\ successPc' = "mounted"
                /\ UNCHANGED paymentEvents
    /\ UNCHANGED <<envTenant, whPc, whEvent, clientVars, serverVars, outsideCheckout>>

\* neither the webhook nor the success page has been called
PortalIdle ==
    /\ envTenant = ""
    /\ whPc = "idle"
    /\ whEvent = NoEvent
    /\ successPc = "idle"
    /\ paymentEvents = <<>>

\* nothing of the checkout is under way
CheckoutIdle ==
    /\ coPc = "cart"
    /\ cartItems = <<>>
    /\ campaignAnswer = CHOOSE a \in CampaignAnswers : TRUE
    /\ catalogAnswer = CHOOSE r \in CatalogResponses : TRUE
    /\ catalogLookups = 0
    /\ coItems = <<>>
    /\ sessionRequests = <<>>
    /\ sessionAnswer = NoAnswer
    /\ coResult = NoResult
    /\ locationHref = ""
    /\ srvPc = "idle"
    /\ srvRequest = NoRequest
    /\ srvInventory = CHOOSE a \in InventoryAnswers : TRUE
    /\ srvCampaign = CHOOSE a \in CampaignAnswers : TRUE
    /\ backendRequests = <<>>
    /\ backendAnswer = NoAnswer
    /\ trackRequests = <<>>
    /\ srvResponse = NoResponse
    /\ srvErrors = {}
    /\ ccsPc = "idle"
    /\ ccsRequest = NoCreateSessionRequest
    /\ stripeRequests = <<>>
    /\ ccsSession = NoSession
    /\ ccsResponse = NoCreateSessionResponse
    /\ PortalIdle

-----------------------------------------------------------------------------
(* server.js: the /api proxy *)

Clients == {"A", "B"}

\* req.path and req.method as the proxy tells them apart
ProxyKinds == {"private", "publicBookingGet", "publicBookingPost", "analyticsEvents"}

\* the cookie names the backend sets
CookieNames == {"connect.sid", "csrf"}

\* what the backend answers: the fetch rejects, or a response of some status that
\* sets the cookies named
ProxyBackendAnswers ==
    {[outcome |-> "networkError", status |-> 500, setCookie |-> {}]}
        \cup [outcome : {"answered"}, status : {200, 403},
              setCookie : {{}, {"connect.sid"}, CookieNames}]

\* (!isPublicBookingEndpoint || isPublicBookingPOST) && !isAnalyticsEventsEndpoint
forwardsCookies(kind) == kind \in {"private", "publicBookingPost"}

\* options.headers['Cookie']: the request's own cookies, else the stored ones
cookieHeader(kind, requestCookies, store) ==
    IF ~forwardsCookies(kind) THEN {}
    ELSE IF requestCookies # {} THEN requestCookies
    ELSE store

\* cookieMap: the stored cookies, those of the same name replaced by the new ones
mergedCookies(store, cookies) ==
    {c \in store : \A n \in cookies : n.name # c.name} \cup cookies

\* the cookies a response sets, each marked with the client whose request was served
cookiesSet(names, client) == {[name |-> n, session |-> client] : n \in names}

\* a request of a client reaches the proxy and is forwarded to the backend; the
\* browser sends the cookies it holds, or none
ProxyReceived(client, kind, sendsCookies) ==
    /\ proxyStarted < MaxProxyRequests
    /\ proxyStarted' = proxyStarted + 1
    /\ LET requestCookies == IF sendsCookies THEN cookieJar[client] ELSE {}
           forwarded == [id |-> proxyStarted + 1, client |-> client, kind |-> kind,
                         cookie |-> cookieHeader(kind, requestCookies, backendSessionCookies)]
       IN  /\ proxyForwarded' = Append(proxyForwarded, forwarded)
           /\ proxyInFlight' = proxyInFlight \cup {forwarded}
    /\ UNCHANGED <<backendSessionCookies, proxyAnswers, cookieJar, outsideProxy>>

\* the status the proxy answers the client with
proxyStatus(answer) ==
    IF answer.outcome = "networkError" THEN 500 ELSE answer.status

\* the backend has answered a forwarded request: its cookies are handed to the
\* client and merged into the store, and the response is passed on
ProxyAnswered(id, answer) ==
    /\ \E q \in proxyInFlight : q.id = id
    /\ LET r == CHOOSE q \in proxyInFlight : q.id = id
           cookies == cookiesSet(answer.setCookie, r.client)
       IN  /\ proxyInFlight' = proxyInFlight \ {r}
           /\ backendSessionCookies' = IF cookies # {}
                                           THEN mergedCookies(backendSessionCookies, cookies)
                                           ELSE backendSessionCookies
           /\ cookieJar' = [cookieJar EXCEPT ![r.client] = mergedCookies(@, cookies)]
           /\ proxyAnswers' = Append(proxyAnswers, [id |-> r.id, client |-> r.client,
                                                    status |-> proxyStatus(answer)])
    /\ UNCHANGED <<proxyStarted, proxyForwarded, outsideProxy>>

\* the server has started and has served no request
ProxyIdle ==
    /\ backendSessionCookies = {}
    /\ proxyInFlight = {}
    /\ proxyStarted = 0
    /\ proxyForwarded = <<>>
    /\ proxyAnswers = <<>>
    /\ cookieJar = [c \in Clients |-> {}]

-----------------------------------------------------------------------------
(* context/CartContext: addToCart, removeFromCart, updateQuantity, and the product page *)

\* the products of the shop as the product page passes them to addToCart; the
\* second has no productId, so that no campaign price is asked for
Products ==
    {[id |-> "p1", productId |-> "prod_1", priceId |-> "price_1"],
     [id |-> "p2", productId |-> "",       priceId |-> "price_2"],
     [id |-> "p3", productId |-> "prod_3", priceId |-> "price_3"]}

ProductIds == {product.id : product \in Products}

\* finalProduct: the product with quantity 1 and, when it has a productId, the
\* campaign price that was found
finalProduct(product, answer) ==
    [id |-> product.id, productId |-> product.productId, priceId |-> product.priceId, quantity |-> 1,
     articleNumber |-> "", variantId |-> "",
     campaignPriceId |-> IF product.productId # ""
                             THEN getCampaignPrice(product.productId, product.priceId, answer).priceId
                             ELSE "",
     campaignPriceChecked |-> product.productId # ""]

\* faulty variant: the entry is appended without looking for an existing one
addedToCart_appends(prev, entry) == Append(prev, entry)

\* the updater addToCart gives to setCartItems: the quantity of the existing entry
\* of that id grows by one, or the product is appended
addedToCart(prev, entry) ==
    IF \E i \in 1..Len(prev) : prev[i].id = entry.id
        THEN [i \in 1..Len(prev) |->
                 IF prev[i].id = entry.id THEN [prev[i] EXCEPT !.quantity = @ + 1] ELSE prev[i]]
        ELSE Append(prev, entry)

\* prev.filter(item => item.id !== id)
removedFromCart(prev, id) == SelectSeq(prev, LAMBDA item : item.id # id)

\* prev.map(item => item.id === id ? { ...item, quantity } : item)
quantityUpdated(prev, id, quantity) ==
    [i \in 1..Len(prev) |-> IF prev[i].id = id THEN [prev[i] EXCEPT !.quantity = quantity] ELSE prev[i]]

RECURSIVE addedTimes(_, _, _)
\* the cart after n addToCart calls that need no campaign price
addedTimes(prev, entry, n) ==
    IF n = 0 THEN prev ELSE addedTimes(addedToCart(prev, entry), entry, n - 1)

\* ProductDetail.handleAddToCart: addToCart(product) is called quantity times, none
\* awaited. A call for a product with a productId stops at the campaign lookup;
\* one for a product without runs to its end at once
handleAddToCart(product, quantity, outOfStock) ==
    /\ cartOps < MaxCartOps
    /\ cartOps' = cartOps + 1
    /\ IF outOfStock
          THEN UNCHANGED <<cartItems, isCartOpen, addsAwaiting, addsIssued>>
          ELSE /\ addsIssued' = [addsIssued EXCEPT ![product.id] = @ + quantity]
               /\ IF product.productId # ""
                     THEN /\ addsAwaiting' = [addsAwaiting EXCEPT ![product.id] = @ + quantity]
                          /\ UNCHANGED <<cartItems, isCartOpen>>
                     ELSE /\ cartItems' = addedTimes(cartItems, finalProduct(product, campaignAnswer),
                                                     quantity)
                          /\ isCartOpen' = TRUE
                          /\ UNCHANGED addsAwaiting
    /\ UNCHANGED <<changedById, effectLength, effectAwaiting, outsideCart>>

\* an addToCart call gets its campaign price and applies its update
addToCart(product, answer) ==
    /\ addsAwaiting[product.id] > 0
    /\ addsAwaiting' = [addsAwaiting EXCEPT ![product.id] = @ - 1]
    /\ cartItems' = addedToCart(cartItems, finalProduct(product, answer))
    /\ isCartOpen' = TRUE
    /\ UNCHANGED <<addsIssued, cartOps, changedById, effectLength, effectAwaiting, outsideCart>>

\* removeFromCart(id)
removeFromCart(id) ==
    /\ cartOps < MaxCartOps
    /\ cartOps' = cartOps + 1
    /\ cartItems' = removedFromCart(cartItems, id)
    /\ changedById' = changedById \cup {id}
    /\ UNCHANGED <<isCartOpen, addsAwaiting, addsIssued, effectLength, effectAwaiting, outsideCart>>

\* updateQuantity(id, quantity)
updateQuantity(id, quantity) ==
    /\ cartOps < MaxCartOps
    /\ cartOps' = cartOps + 1
    /\ cartItems' = IF quantity <= 0 THEN removedFromCart(cartItems, id)
                    ELSE quantityUpdated(cartItems, id, quantity)
    /\ changedById' = changedById \cup {id}
    /\ UNCHANGED <<isCartOpen, addsAwaiting, addsIssued, effectLength, effectAwaiting, outsideCart>>

\* the items checkCampaignPrices would ask a price for
itemsToCheck(items) ==
    {i \in 1..Len(items) : items[i].productId # "" /\ ~items[i].campaignPriceChecked}

\* the steps of the effect: it runs, or a run gets the prices it awaited
EffectSteps == {"run", "prices"}

\* the effect on cartItems.length: it runs after a render with another length,
\* and when the cart it saw has items to check it awaits their prices and then
\* sets the cart to the updated copy of what it saw. addToCart marks every item
\* that has a productId as checked, so from an empty cart no run finds an item
\* to check and the second step never has a run to resume
checkCampaignPricesEffect(step, answer) ==
    IF step = "run"
        THEN /\ Len(cartItems) # effectLength
             /\ effectLength' = Len(cartItems)
             /\ effectAwaiting' = IF itemsToCheck(cartItems) # {}
                                      THEN effectAwaiting \cup {cartItems}
                                      ELSE effectAwaiting
             /\ UNCHANGED <<cartItems, isCartOpen, addsAwaiting, addsIssued, cartOps, changedById,
                            outsideCart>>
        ELSE /\ \E seen \in effectAwaiting :
                    /\ cartItems' = [i \in 1..Len(seen) |-> withCampaignPrice(seen[i], answer)]
                    /\ effectAwaiting' = effectAwaiting \ {seen}
             /\ UNCHANGED <<isCartOpen, addsAwaiting, addsIssued, cartOps, changedById, effectLength,
                            outsideCart>>

\* the CartProvider has mounted and no handler has been called
CartIdle ==
    /\ isCartOpen = FALSE
    /\ addsAwaiting = [id \in ProductIds |-> 0]
    /\ addsIssued = [id \in ProductIds |-> 0]
    /\ cartOps = 0
    /\ changedById = {}
    /\ effectLength = 0
    /\ effectAwaiting = {}

-----------------------------------------------------------------------------
(* services/api.js: createBooking *)

\* the fields createBooking requires; "" is a field left out
BookingDatas ==
    [serviceId : {"", "s1"}, providerId : {"", "p1"}, date : {"", "2025-12-12"},
     startTime : {"", "14:30"}, customerName : {"", "Anna"}]

NoBookingData == [serviceId |-> "", providerId |-> "", date |-> "", startTime |-> "", customerName |-> ""]

BookingStatuses == {200, 201, 400, 409, 500}

\* the JSON bodies of the bookings service: success true, false or absent, the
\* first of message and error that is set, and whether conflicts are listed
BookingBodies ==
    {[null |-> TRUE, success |-> "undefined", message |-> "", conflicts |-> FALSE]} \cup
    [null : {FALSE}, success : {"true", "false", "undefined"},
     message : {"", "Time slot already booked"}, conflicts : BOOLEAN]

NullBookingBody == [null |-> TRUE, success |-> "undefined", message |-> "", conflicts |-> FALSE]

\* the fetch rejects, or the service answers with a body that parses as JSON or
\* does not
BookingResponses ==
    {[outcome |-> "networkError", status |-> 500, format |-> "html", body |-> NullBookingBody]}
        \cup {[outcome |-> "answered", status |-> s, format |-> "html", body |-> NullBookingBody] :
                 s \in BookingStatuses}
        \cup {[outcome |-> "answered", status |-> s, format |-> "json", body |-> b] :
                 s \in BookingStatuses, b \in BookingBodies}

NoBookingAnswer == [outcome |-> "none", status |-> 500, format |-> "html", body |-> NullBookingBody]

NoBookingResult == [success |-> FALSE, conflict |-> FALSE, error |-> ""]

\* !serviceId || !providerId || !date || !startTime || !customerName
missingRequired(data) ==
    \/ data.serviceId = ""
    \/ data.providerId = ""
    \/ data.date = ""
    \/ data.startTime = ""
    \/ data.customerName = ""

\* what the catch of createBooking returns
BookingCaught ==
    [success |-> FALSE, conflict |-> FALSE, error |-> "An error occurred while creating the booking."]

\* what createBooking returns once the fetch has settled
bookingOutcome(response) ==
    IF response.outcome = "networkError" THEN BookingCaught
    \* response.json() rejects on a body that is not JSON
    ELSE IF response.format # "json" THEN BookingCaught
    \* data.success of a null body throws
    ELSE IF response.body.null THEN BookingCaught
    ELSE IF response.status = 409
        THEN [success |-> FALSE, conflict |-> TRUE,
              error |-> IF response.body.message # "" THEN response.body.message
                        ELSE "This time slot is already booked. Please choose another time."]
    ELSE IF ~responseOk(response) \/ response.body.success # "true"
        THEN [success |-> FALSE, conflict |-> FALSE,
              error |-> IF response.body.message # "" THEN response.body.message
                        ELSE "Failed to create booking"]
    ELSE [success |-> TRUE, conflict |-> FALSE, error |-> ""]

\* createBooking is called: the required fields are validated
createBooking ==
    /\ bkPc = "called"
    /\ IF missingRequired(bookingData)
           THEN /\ bookingResult' = [success |-> FALSE, conflict |-> FALSE,
                                     error |-> "Service, provider, date, start time, and customer name are required."]
                /\ bkPc' = "returned"
           ELSE /\ bkPc' = "csrf"
                /\ UNCHANGED bookingResult
    /\ UNCHANGED <<bookingData, bookingRequests, bookingAnswer, outsideBooking>>

\* getCSRFToken has answered; without a token nothing is sent
BookingCsrfAnswered(csrfToken) ==
    /\ bkPc = "csrf"
    /\ IF csrfToken = ""
           THEN /\ bookingResult' = [success |-> FALSE, conflict |-> FALSE,
                                     error |-> "Could not get security token."]
                /\ bkPc' = "returned"
                /\ UNCHANGED bookingRequests
           ELSE /\ bookingRequests' = Append(bookingRequests,
                       [serviceId |-> bookingData.serviceId, providerId |-> bookingData.providerId,
                        customerName |-> bookingData.customerName, csrfToken |-> csrfToken])
                /\ bkPc' = "posted"
                /\ UNCHANGED bookingResult
    /\ UNCHANGED <<bookingData, bookingAnswer, outsideBooking>>

\* the POST to the bookings service has settled
BookingAnswered(response) ==
    /\ bkPc = "posted"
    /\ bookingAnswer' = response
    /\ bookingResult' = bookingOutcome(response)
    /\ bkPc' = "returned"
    /\ UNCHANGED <<bookingData, bookingRequests, outsideBooking>>

\* createBooking is not under way
BookingIdle ==
    /\ bkPc = "idle"
    /\ bookingData = NoBookingData
    /\ bookingRequests = <<>>
    /\ bookingAnswer = NoBookingAnswer
    /\ bookingResult = NoBookingResult

-----------------------------------------------------------------------------
(* services/api.js: the calls of the booking page *)

NoAvailability ==
    [present |-> FALSE, isOpen |-> "undefined", availableSlots |-> <<>>, usingGeneralHours |-> FALSE]

\* getProviderAvailability: a throw, a non-2xx status, or a body without
\* success/availability all give { success: false, availability: null }
getProviderAvailability(response) ==
    IF response.outcome = "ok" /\ response.success /\ response.availability.present
        THEN [success |-> TRUE, availability |-> response.availability]
        ELSE [success |-> FALSE, availability |-> NoAvailability]

NullSettings ==
    [null |-> TRUE, openingHours |-> OpeningHoursOf(UndefEntry, UndefEntry),
     calendarBehavior |-> NoCalendarBehavior]

\* const defaultSettings of getBookingSettings
defaultSettings ==
    [null |-> FALSE, openingHours |-> OpeningHoursOf(UndefEntry, UndefEntry),
     calendarBehavior |-> [startTime |-> <<9, 0>>, endTime |-> <<17, 0>>, timeSlotInterval |-> 30]]

\* getBookingSettings: every failure is answered with success: true and the defaults
getBookingSettings(response) ==
    IF response.outcome = "ok" /\ response.success /\ ~response.settings.null
        THEN [success |-> TRUE, settings |-> response.settings, usingDefaults |-> FALSE]
        ELSE [success |-> TRUE, settings |-> defaultSettings, usingDefaults |-> TRUE]

getBookingServices(response) ==
    IF response.outcome = "ok" /\ response.success
        THEN [success |-> TRUE, services |-> response.services]
        ELSE [success |-> FALSE, services |-> <<>>]

getBookingProviders(response) ==
    IF response.outcome = "ok" /\ response.success
        THEN [success |-> TRUE, providers |-> response.providers]
        ELSE [success |-> FALSE, providers |-> <<>>]

-----------------------------------------------------------------------------
(* The collaborator services: what each answers, fixed over a run *)

Http404 == [outcome |-> "http404", success |-> FALSE, availability |-> NoAvailability]

ProviderClosed ==
    [outcome |-> "ok", success |-> TRUE,
     availability |-> [present |-> TRUE, isOpen |-> "false", availableSlots |-> <<>>,
                       usingGeneralHours |-> FALSE]]

ProviderSlots ==
    [outcome |-> "ok", success |-> TRUE,
     availability |-> [present |-> TRUE, isOpen |-> "true",
                       availableSlots |-> <<<<9, 0>>, <<10, 0>>>>, usingGeneralHours |-> TRUE]]

ProviderFull ==
    [outcome |-> "ok", success |-> TRUE,
     availability |-> [present |-> TRUE, isOpen |-> "true", availableSlots |-> <<>>,
                       usingGeneralHours |-> FALSE]]

ProviderNoHours ==
    [outcome |-> "ok", success |-> TRUE,
     availability |-> [present |-> TRUE, isOpen |-> "undefined", availableSlots |-> <<>>,
                       usingGeneralHours |-> TRUE]]

ProviderResponses == {Http404, ProviderClosed, ProviderSlots, ProviderFull, ProviderNoHours}

\* the other ways the provider-availability request fails: fetch rejects, a 5xx
\* status, a body response.json() rejects, a body without success, a body
\* without availability
ProviderFailures ==
    {[outcome |-> o, success |-> FALSE, availability |-> NoAvailability] :
        o \in {"networkError", "http500", "unparsable", "ok"}}
        \cup {[outcome |-> "ok", success |-> TRUE, availability |-> NoAvailability]}

EmptySettings ==
    [null |-> FALSE, openingHours |-> OpeningHoursOf(UndefEntry, UndefEntry),
     calendarBehavior |-> NoCalendarBehavior]

ConfiguredSettings ==
    [null |-> FALSE,
     openingHours |-> OpeningHoursOf([isOpen |-> "true", start |-> <<9, 0>>, end |-> <<10, 30>>],
                                     ClosedEntry),
     calendarBehavior |-> [startTime |-> <<9, 0>>, endTime |-> <<10, 30>>, timeSlotInterval |-> 0]]

SettingsResponses ==
    {[outcome |-> "http500", success |-> FALSE, settings |-> NullSettings],
     [outcome |-> "ok", success |-> TRUE, settings |-> EmptySettings],
     [outcome |-> "ok", success |-> TRUE, settings |-> ConfiguredSettings]}

ServiceList == <<[_id |-> "s1", durationMin |-> 30], [_id |-> "s2", durationMin |-> 0]>>

ProviderList == <<[_id |-> "p1"]>>

ServicesResponse == [outcome |-> "ok", success |-> TRUE, services |-> ServiceList]

ProvidersResponse == [outcome |-> "ok", success |-> TRUE, providers |-> ProviderList]

BookingsResponses ==
    {[ok |-> FALSE, spans |-> {}],
     [ok |-> TRUE, spans |-> {<<570, 600>>}]}

\* the provider-specific answers differ from day to day
Availabilities ==
    {a \in [Dates -> ProviderResponses] :
        \A d \in Dates \ {1} : a[d] = IF a[1] = Http404 THEN Http404 ELSE ProviderClosed}
        \cup {[d \in Dates |-> IF d = 1 THEN Http404 ELSE ProviderClosed]}

Worlds ==
    [availability : Availabilities,
     bookings     : BookingsResponses,
     settings     : SettingsResponses]
        \cup {[availability |-> [d \in Dates |-> IF d = 1 THEN f ELSE ProviderClosed],
                bookings |-> [ok |-> TRUE, spans |-> {<<570, 600>>}],
                settings |-> [outcome |-> "ok", success |-> TRUE, settings |-> ConfiguredSettings]] :
                  f \in ProviderFailures}

\* the bookings the bookings service holds for the day
bookingsOfDay(w, date) ==
    {[start |-> date * MinutesPerDay + sp[1], end |-> date * MinutesPerDay + sp[2],
      status |-> "confirmed"] : sp \in w.bookings.spans}

-----------------------------------------------------------------------------
(* BookNow.jsx: the component *)

NoDate == 0

Ids(list) == {list[i]._id : i \in 1..Len(list)}

\* faulty variant: every refresh counts as a change
hasDataChanged_always(oldServices, oldProviders, newServices, newProviders) == TRUE

\* the counts and the id sets of the two snapshots are compared
hasDataChanged(oldServices, oldProviders, newServices, newProviders) ==
    \/ Len(oldServices) # Len(newServices)
    \/ Len(oldProviders) # Len(newProviders)
    \/ Ids(oldServices) # Ids(newServices)
    \/ Ids(oldProviders) # Ids(newProviders)

\* service.durationMin || 60
durationOf(service) == IF service.durationMin # 0 THEN service.durationMin ELSE 60

\* availability.availableSlots.map(slotTime => ...)
providerSlot(date, slotTime, durationMin) ==
    [start   |-> date * MinutesPerDay + slotTime[1] * 60 + slotTime[2],
     end     |-> date * MinutesPerDay + slotTime[1] * 60 + slotTime[2] + durationMin,
     display |-> slotTime]

\* faulty variant: the explicit isOpen === false answer is not acted on
providerBranch_noClosed(availabilityResult) ==
    IF ~(availabilityResult.success /\ availabilityResult.availability.present) THEN "fallback"
    ELSE IF availabilityResult.availability.isOpen = "true"
            /\ Len(availabilityResult.availability.availableSlots) > 0 THEN "slots"
    ELSE IF availabilityResult.availability.isOpen = "true" THEN "full"
    ELSE "fallback"

\* faulty variant: a failed lookup ends the call as if nothing were free
providerBranch_failureEnds(availabilityResult) ==
    IF ~(availabilityResult.success /\ availabilityResult.availability.present) THEN "full"
    ELSE IF availabilityResult.availability.isOpen = "false" THEN "closed"
    ELSE IF availabilityResult.availability.isOpen = "true"
            /\ Len(availabilityResult.availability.availableSlots) > 0 THEN "slots"
    ELSE IF availabilityResult.availability.isOpen = "true" THEN "full"
    ELSE "fallback"

\* the branch checkAvailability takes on the provider-specific answer
providerBranch(availabilityResult) ==
    IF ~(availabilityResult.success /\ availabilityResult.availability.present) THEN "fallback"
    ELSE IF availabilityResult.availability.isOpen = "false" THEN "closed"
    ELSE IF availabilityResult.availability.isOpen = "true"
            /\ Len(availabilityResult.availability.availableSlots) > 0 THEN "slots"
    ELSE IF availabilityResult.availability.isOpen = "true" THEN "full"
    ELSE "fallback"

\* checkAvailability up to its first await, called with the values of the render
\* it was created in
checkAvailabilityStart(date, serviceId, providerId, svcs, settings) ==
    IF \A i \in 1..Len(svcs) : svcs[i]._id # serviceId
    THEN /\ availableTimeSlots' = <<>>
         /\ usingGeneralHours' = FALSE
         /\ loadingSlots' = FALSE
         /\ lastLog' = "serviceMissing"
         /\ UNCHANGED <<lookups, lookupsStarted>>
    ELSE LET service == svcs[CHOOSE i \in 1..Len(svcs) :
                                /\ svcs[i]._id = serviceId
                                /\ \A j \in 1..(i - 1) : svcs[j]._id # serviceId]
         IN  /\ loadingSlots' = TRUE
             /\ usingGeneralHours' = FALSE
             /\ lookupsStarted' = lookupsStarted + 1
             /\ lookups' = lookups \cup
                   {[id |-> lookupsStarted + 1, pc |-> "provider", date |-> date,
                     provider |-> providerId, durationMin |-> durationOf(service),
                     settings |-> settings]}
             /\ UNCHANGED <<availableTimeSlots, lastLog>>

\* useEffect([selectedDate, selectedService, selectedProvider, services, checkAvailability])
availabilityEffect(date, serviceId, providerId, svcs, settings) ==
    IF date # NoDate /\ serviceId # "" /\ providerId # "" /\ Len(svcs) > 0
    THEN checkAvailabilityStart(date, serviceId, providerId, svcs, settings)
    ELSE /\ availableTimeSlots' = <<>>
         /\ UNCHANGED <<usingGeneralHours, loadingSlots, lookups, lookupsStarted, lastLog>>

handleDateSelect(day) ==
    /\ lookupsStarted < MaxLookups
    /\ selectedDate' = day
    /\ selectedTime' = NoTime
    /\ availabilityEffect(day, selectedService, selectedProvider, services, bookingSettings)
    /\ UNCHANGED <<world, catalogVars, selectedService, selectedProvider, refreshVars, outsideBookNow,
                   formData, isProcessing, submitted, formError, submitCall, bookingCalls>>

handleServiceChange(value) ==
    /\ lookupsStarted < MaxLookups
    /\ value # selectedService
    /\ selectedService' = value
    /\ availabilityEffect(selectedDate, value, selectedProvider, services, bookingSettings)
    /\ UNCHANGED <<world, catalogVars, selectedDate, selectedProvider, refreshVars, outsideAvail>>

handleProviderChange(value) ==
    /\ lookupsStarted < MaxLookups
    /\ value # selectedProvider
    /\ selectedProvider' = value
    /\ availabilityEffect(selectedDate, selectedService, value, services, bookingSettings)
    /\ UNCHANGED <<world, catalogVars, selectedDate, selectedService, refreshVars, outsideAvail>>

\* the continuation of checkAvailability after await getProviderAvailability(...)
ProviderAvailabilityAnswered(l) ==
    /\ l \in lookups
    /\ l.pc = "provider"
    /\ LET availabilityResult == getProviderAvailability(world.availability[l.date])
           availability == availabilityResult.availability
           branch == providerBranch(availabilityResult)
       IN  CASE branch = "closed" ->
                  /\ availableTimeSlots' = <<>>
                  /\ usingGeneralHours' = FALSE
                  /\ loadingSlots' = FALSE
                  /\ lookups' = lookups \ {l}
                  /\ lastLog' = "closed"
             [] branch = "slots" ->
                  /\ availableTimeSlots' =
                        [i \in 1..Len(availability.availableSlots) |->
                            providerSlot(l.date, availability.availableSlots[i], l.durationMin)]
                  /\ usingGeneralHours' = availability.usingGeneralHours
                  /\ loadingSlots' = FALSE
                  /\ lookups' = lookups \ {l}
                  /\ lastLog' = "providerSlots"
             [] branch = "full" ->
                  /\ availableTimeSlots' = <<>>
                  /\ loadingSlots' = FALSE
                  /\ lookups' = lookups \ {l}
                  /\ lastLog' = "fullyBooked"
                  /\ UNCHANGED usingGeneralHours
             [] branch = "fallback" /\ l.settings.null ->
                  /\ availableTimeSlots' = <<>>
                  /\ loadingSlots' = FALSE
                  /\ lookups' = lookups \ {l}
                  /\ lastLog' = "noSettings"
                  /\ UNCHANGED usingGeneralHours
             [] branch = "fallback" /\ ~l.settings.null ->
                  /\ lookups' = (lookups \ {l}) \cup {[l EXCEPT !.pc = "bookings"]}
                  /\ UNCHANGED <<availableTimeSlots, usingGeneralHours, loadingSlots, lastLog>>
    /\ UNCHANGED <<world, catalogVars, selectionVars, lookupsStarted, refreshVars, outsideAvail>>

\* the continuation of checkAvailability after await getBookings(...)
BookingsAnswered(l) ==
    /\ l \in lookups
    /\ l.pc = "bookings"
    /\ LET bookingsResult == getBookings(world.bookings.ok, bookingsOfDay(world, l.date))
       IN  availableTimeSlots' =
               generateTimeSlots(l.date, l.durationMin, existingBookingsOf(bookingsResult), l.settings)
    /\ usingGeneralHours' = TRUE
    /\ loadingSlots' = FALSE
    /\ lookups' = lookups \ {l}
    /\ lastLog' = "generated"
    /\ UNCHANGED <<world, catalogVars, selectionVars, lookupsStarted, refreshVars, outsideAvail>>

\* refreshServicesAndProviders(isInitialLoad) up to its await Promise.all([...])
refreshStart(isInitialLoad) ==
    /\ refreshesStarted < MaxRefreshes
    /\ refreshesStarted' = refreshesStarted + 1
    /\ refreshes' = refreshes \cup {[id |-> refreshesStarted + 1, isInitialLoad |-> isInitialLoad]}
    /\ UNCHANGED <<world, catalogVars, selectionVars, slotVars, lastRefresh, outsideAvail>>

\* setInterval(() => refreshServicesAndProviders(false), 5 * 60 * 1000)
RefreshTimer == refreshStart(FALSE)

\* handleVisibilityChange with document.hidden false
VisibilityRegained == refreshStart(FALSE)

\* handleFocus
WindowFocus == refreshStart(FALSE)

\* the settings refreshServicesAndProviders stores
storedSettings(settingsResult) ==
    IF settingsResult.success /\ ~settingsResult.settings.null
        THEN settingsResult.settings
        ELSE [null |-> FALSE, openingHours |-> OpeningHoursOf(UndefEntry, UndefEntry),
              calendarBehavior |->
                  [startTime |-> <<9, 0>>, endTime |-> <<17, 0>>, timeSlotInterval |-> 30]]

\* the continuation of refreshServicesAndProviders after its three answers arrived.
\* The closure is the one of the first render (the effect has no dependencies), so
\* its own selectedDate && selectedService && selectedProvider test is never true;
\* the render that follows the state updates runs the availability effect.
RefreshAnswered(r) ==
    /\ r \in refreshes
    /\ lookupsStarted < MaxLookups
    /\ refreshes' = refreshes \ {r}
    /\ LET servicesResult == getBookingServices(ServicesResponse)
           providersResult == getBookingProviders(ProvidersResponse)
           settingsResult == getBookingSettings(world.settings)
           newServices == IF servicesResult.success THEN servicesResult.services ELSE <<>>
           newProviders == IF providersResult.success THEN providersResult.providers ELSE <<>>
       IN  IF r.isInitialLoad \/ hasDataChanged(servicesRef, providersRef, newServices, newProviders)
           THEN /\ services' = IF servicesResult.success THEN newServices ELSE services
                /\ servicesRef' = IF servicesResult.success THEN newServices ELSE servicesRef
                /\ providers' = IF providersResult.success THEN newProviders ELSE providers
                /\ providersRef' = IF providersResult.success THEN newProviders ELSE providersRef
                /\ bookingSettings' = storedSettings(settingsResult)
                /\ availabilityEffect(selectedDate, selectedService, selectedProvider,
                                      services', bookingSettings')
                /\ lastRefresh' = "updated"
           ELSE /\ lastRefresh' = "skipped"
                /\ UNCHANGED <<catalogVars, slotVars>>
    /\ UNCHANGED <<world, selectionVars, refreshesStarted, outsideAvail>>

\* the time selection, rendered once a date is selected
LoadingMessage == "Loading available times..."

FullyBookedMessage == "Denna dag ar fullbokad"

timeSelectionMessage(loading, slots) ==
    IF loading THEN LoadingMessage
    ELSE IF Len(slots) = 0 THEN FullyBookedMessage
    ELSE "time-slots-grid"

AvailStart ==
    /\ services = <<>>
    /\ providers = <<>>
    /\ servicesRef = <<>>
    /\ providersRef = <<>>
    /\ bookingSettings = NullSettings
    /\ selectedDate = NoDate
    /\ selectedService = ""
    /\ selectedProvider = ""
    /\ availableTimeSlots = <<>>
    /\ usingGeneralHours = FALSE
    /\ loadingSlots = FALSE
    /\ lookups = {}
    /\ lookupsStarted = 0
    /\ lastLog = "none"

-----------------------------------------------------------------------------
(* BookNow.jsx: the time selection and the submission of the form *)

\* the HH:mm values a time button can carry
SlotValues == {<<h, m>> : h \in 0..23, m \in {0, 15, 30, 45}}

NoSubmitCall == [pc |-> "idle", date |-> NoDate, service |-> "", provider |-> "",
                 services |-> <<>>, settings |-> NullSettings, lookup |-> 0]

\* the values of the time buttons rendered: slot.value of every slot offered
offeredTimes(slots) == {slots[i].display : i \in 1..Len(slots)}

\* onClick={() => setSelectedTime(slot.value)} of a rendered time button
TimeSlotClicked(value) ==
    /\ selectedDate # NoDate
    /\ timeSelectionMessage(loadingSlots, availableTimeSlots) = "time-slots-grid"
    /\ value \in offeredTimes(availableTimeSlots)
    /\ selectedTime' = value
    /\ UNCHANGED <<availVars, outsideBookNow, formData, isProcessing, submitted, formError,
                   submitCall, bookingCalls>>

\* handleInputChange for the name field
handleInputChange(value) ==
    /\ formData # value
    /\ formData' = value
    /\ UNCHANGED <<availVars, outsideBookNow, selectedTime, isProcessing, submitted, formError,
                   submitCall, bookingCalls>>

\* the disabled attribute of the submit button
submitDisabled(service, provider, date, time, name, processing, slots) ==
    \/ service = "" \/ provider = "" \/ date = NoDate \/ time = NoTime \/ name = ""
    \/ processing
    \/ Len(slots) = 0

\* getSelectedServiceDuration()
getSelectedServiceDuration(svcs, serviceId) ==
    IF \E i \in 1..Len(svcs) : svcs[i]._id = serviceId
        THEN durationOf(svcs[CHOOSE i \in 1..Len(svcs) :
                                /\ svcs[i]._id = serviceId
                                /\ \A j \in 1..(i - 1) : svcs[j]._id # serviceId])
        ELSE 60

\* handleSubmit up to await createBooking(...): the form is submitted through its
\* enabled button
handleSubmit ==
    /\ Len(bookingCalls) < MaxSubmits
    /\ ~submitDisabled(selectedService, selectedProvider, selectedDate, selectedTime, formData,
                       isProcessing, availableTimeSlots)
    /\ IF selectedService = "" \/ selectedProvider = "" \/ selectedDate = NoDate
            \/ selectedTime = NoTime \/ formData = ""
          THEN /\ formError' = "Please fill in all required fields."
               /\ UNCHANGED <<isProcessing, submitCall, bookingCalls>>
          ELSE /\ formError' = ""
               /\ isProcessing' = TRUE
               /\ bookingCalls' = Append(bookingCalls,
                      [serviceId |-> selectedService, providerId |-> selectedProvider,
                       date |-> selectedDate, startTime |-> selectedTime,
                       duration |-> getSelectedServiceDuration(services, selectedService),
                       customerName |-> formData,
                       offered |-> offeredTimes(availableTimeSlots),
                       loading |-> loadingSlots])
               /\ submitCall' = [pc |-> "sent", date |-> selectedDate, service |-> selectedService,
                                 provider |-> selectedProvider, services |-> services,
                                 settings |-> bookingSettings, lookup |-> 0]
    /\ UNCHANGED <<availVars, outsideBookNow, selectedTime, formData, submitted>>

\* what createBooking returns to handleSubmit, or that it throws
SubmitResults == {"success", "conflict", "failed", "throws"}

\* the continuation of handleSubmit after await createBooking(...); after a
\* conflict it calls checkAvailability() of its own render and awaits it
SubmitAnswered(result) ==
    /\ submitCall.pc = "sent"
    /\ result = "conflict" => lookupsStarted < MaxLookups
    /\ submitted' = ((result = "success") \/ submitted)
    /\ formError' = CASE result = "success" -> formError
                      [] result = "conflict" -> "This time slot is already booked. Please choose another time."
                      [] result = "failed" -> "Failed to book appointment. Please try again."
                      [] OTHER -> "An error occurred. Please try again."
    /\ IF result = "conflict"
          THEN /\ checkAvailabilityStart(submitCall.date, submitCall.service, submitCall.provider,
                                         submitCall.services, submitCall.settings)
               /\ IF lookupsStarted' = lookupsStarted
                     THEN /\ submitCall' = NoSubmitCall
                          /\ isProcessing' = FALSE
                     ELSE /\ submitCall' = [submitCall EXCEPT !.pc = "refreshing",
                                                              !.lookup = lookupsStarted']
                          /\ UNCHANGED isProcessing
          ELSE /\ submitCall' = [NoSubmitCall EXCEPT !.pc = IF result = "success" THEN "timer" ELSE "idle"]
               /\ isProcessing' = FALSE
               /\ UNCHANGED slotVars
    /\ UNCHANGED <<world, catalogVars, selectionVars, refreshVars, outsideBookNow, selectedTime,
                   formData, bookingCalls>>

\* the checkAvailability call handleSubmit awaited has ended: finally
\* setIsProcessing(false)
SubmitRefreshed ==
    /\ submitCall.pc = "refreshing"
    /\ \A l \in lookups : l.id # submitCall.lookup
    /\ submitCall' = NoSubmitCall
    /\ isProcessing' = FALSE
    /\ UNCHANGED <<availVars, outsideBookNow, selectedTime, formData, submitted, formError,
                   bookingCalls>>

\* the setTimeout callback three seconds after a booking succeeded: the form is
\* reset, and the availability effect empties the slot list
SubmitResetTimer ==
    /\ submitCall.pc = "timer"
    /\ submitCall' = NoSubmitCall
    /\ submitted' = FALSE
    /\ selectedService' = ""
    /\ selectedProvider' = ""
    /\ selectedDate' = NoDate
    /\ selectedTime' = NoTime
    /\ formData' = ""
    /\ availabilityEffect(NoDate, "", "", services, bookingSettings)
    /\ UNCHANGED <<world, catalogVars, refreshVars, outsideBookNow, isProcessing, formError,
                   bookingCalls>>

\* the salon's booking settings are edited in the portal while the page is open
SettingsEdited(response) ==
    /\ response # world.settings
    /\ world' = [world EXCEPT !.settings = response]
    /\ UNCHANGED <<catalogVars, selectionVars, slotVars, refreshVars, outsideAvail>>

\* the form as first rendered
FormIdle ==
    /\ selectedTime = NoTime
    /\ formData = ""
    /\ isProcessing = FALSE
    /\ submitted = FALSE
    /\ formError = ""
    /\ submitCall = NoSubmitCall
    /\ bookingCalls = <<>>

\* the component before it is mounted
AvailIdle ==
    /\ world = CHOOSE w \in Worlds : TRUE
    /\ AvailStart
    /\ refreshes = {}
    /\ refreshesStarted = 0
    /\ lastRefresh = "none"

GenIdle ==
    /\ genPc = "done"
    /\ genDate = 1
    /\ genDuration = 30
    /\ genSettings = NullSettings
    /\ genAnswer = {}
    /\ genBookings = [success |-> FALSE, bookings |-> {}]
    /\ genSlots = <<>>

\* the component after its first render: the mount effect has called
\* refreshServicesAndProviders(true)
AvailInit ==
    /\ GenIdle
    /\ CheckoutIdle
    /\ BookingIdle
    /\ ProxyIdle
    /\ CartIdle
    /\ FormIdle
    /\ world \in Worlds
    /\ AvailStart
    /\ refreshes = {[id |-> 1, isInitialLoad |-> TRUE]}
    /\ refreshesStarted = 1
    /\ lastRefresh = "none"

AvailNext ==
    \/ \E day \in Dates : handleDateSelect(day)
    \/ \E value \in Ids(services) \cup {""} : handleServiceChange(value)
    \/ \E value \in Ids(providers) \cup {""} : handleProviderChange(value)
    \/ \E l \in lookups : ProviderAvailabilityAnswered(l)
    \/ \E l \in lookups : BookingsAnswered(l)
    \/ RefreshTimer
    \/ VisibilityRegained
    \/ WindowFocus
    \/ \E r \in refreshes : RefreshAnswered(r)

SpecAvail == AvailInit /\ [][AvailNext]_vars

-----------------------------------------------------------------------------
(* SpecForm: a visit of the booking page up to the submission of the form *)

\* the salon is configured and its bookings can be read: none, or one from 09:30
\* to 10:00; the first day is served by the provider's own hours or by the
\* general ones
FormWorlds ==
    [availability : {a \in Availabilities : a[1] \in {Http404, ProviderSlots}},
     bookings     : {[ok |-> TRUE, spans |-> {}], [ok |-> TRUE, spans |-> {<<570, 600>>}]},
     settings     : {r \in SettingsResponses : r.settings = ConfiguredSettings}]

FormInit ==
    /\ GenIdle
    /\ CheckoutIdle
    /\ BookingIdle
    /\ ProxyIdle
    /\ CartIdle
    /\ FormIdle
    /\ world \in FormWorlds
    /\ AvailStart
    /\ refreshes = {[id |-> 1, isInitialLoad |-> TRUE]}
    /\ refreshesStarted = 1
    /\ lastRefresh = "none"

FormNext ==
    \/ \E day \in Dates : handleDateSelect(day)
    \/ \E value \in Ids(services) \cup {""} : handleServiceChange(value)
    \/ \E value \in Ids(providers) \cup {""} : handleProviderChange(value)
    \/ \E l \in lookups : ProviderAvailabilityAnswered(l)
    \/ \E l \in lookups : BookingsAnswered(l)
    \/ \E r \in refreshes : RefreshAnswered(r)
    \/ \E value \in SlotValues : TimeSlotClicked(value)
    \/ \E value \in {"", "Ann"} : handleInputChange(value)
    \/ handleSubmit
    \/ \E result \in SubmitResults : SubmitAnswered(result)
    \/ SubmitRefreshed
    \/ SubmitResetTimer

SpecForm == FormInit /\ [][FormNext]_vars

-----------------------------------------------------------------------------
(* SpecPolling: the page stays open while the salon's settings are edited *)

PollingNext ==
    \/ \E day \in Dates : handleDateSelect(day)
    \/ \E value \in Ids(services) \cup {""} : handleServiceChange(value)
    \/ \E value \in Ids(providers) \cup {""} : handleProviderChange(value)
    \/ \E l \in lookups : ProviderAvailabilityAnswered(l)
    \/ \E l \in lookups : BookingsAnswered(l)
    \/ RefreshTimer
    \/ VisibilityRegained
    \/ WindowFocus
    \/ \E r \in refreshes : RefreshAnswered(r)
    \/ \E response \in {r \in SettingsResponses : r.success} : SettingsEdited(response)

SpecPolling == FormInit /\ [][PollingNext]_vars

-----------------------------------------------------------------------------
(* SpecSlots: getBookings and generateTimeSlots applied to drawn inputs *)

SettingsInputs ==
    {[null |-> FALSE, openingHours |-> OpeningHoursOf(mo, tu), calendarBehavior |-> cb] :
        mo \in DayEntries \cup {LateEntry}, tu \in {UndefEntry, ClosedEntry},
        cb \in CalendarBehaviors}

GenInit ==
    /\ AvailIdle
    /\ CheckoutIdle
    /\ BookingIdle
    /\ ProxyIdle
    /\ CartIdle
    /\ FormIdle
    /\ genPc = "start"
    /\ genDate \in Dates
    /\ genDuration \in Durations
    /\ genSettings \in SettingsInputs
    /\ genAnswer \in AnswersOn(genDate)
    /\ genBookings = [success |-> FALSE, bookings |-> {}]
    /\ genSlots = <<>>

\* const bookingsResult = await getBookings(dayStart, dayEnd, selectedProvider)
GenFetchBookings ==
    /\ genPc = "start"
    /\ \E ok \in BOOLEAN : genBookings' = getBookings(ok, genAnswer)
    /\ genPc' = "fetched"
    /\ UNCHANGED <<genDate, genDuration, genSettings, genAnswer, genSlots, outsideSlots>>

\* const slots = generateTimeSlots(date, durationMin, existingBookings, bookingSettings)
GenGenerate ==
    /\ genPc = "fetched"
    /\ genSlots' = generateTimeSlots(genDate, genDuration, existingBookingsOf(genBookings), genSettings)
    /\ genPc' = "done"
    /\ UNCHANGED <<genDate, genDuration, genSettings, genAnswer, genBookings, outsideSlots>>

GenNext == GenFetchBookings \/ GenGenerate

SpecSlots == GenInit /\ [][GenNext]_vars

-----------------------------------------------------------------------------
(* SpecCheckout: a cart is checked out in the browser, or a checkout request
   reaches POST /api/checkout *)

CheckoutInit ==
    /\ AvailIdle
    /\ GenIdle
    /\ BookingIdle
    /\ ProxyIdle
    /\ CartIdle
    /\ FormIdle
    /\ coPc = "cart"
    /\ catalogLookups = 0
    /\ coItems = <<>>
    /\ sessionRequests = <<>>
    /\ sessionAnswer = NoAnswer
    /\ coResult = NoResult
    /\ locationHref = ""
    /\ backendRequests = <<>>
    /\ backendAnswer = NoAnswer
    /\ trackRequests = <<>>
    /\ srvResponse = NoResponse
    /\ srvErrors = {}
    /\ stripeRequests = <<>>
    /\ ccsSession = NoSession
    /\ ccsResponse = NoCreateSessionResponse
    /\ whPc = "idle"
    /\ whEvent = NoEvent
    /\ successPc = "idle"
    /\ paymentEvents = <<>>
    /\ \/ /\ cartItems \in Carts
          /\ campaignAnswer \in CampaignAnswers
          /\ catalogAnswer \in CatalogResponses
          /\ srvPc = "idle"
          /\ srvRequest = NoRequest
          /\ srvInventory = CHOOSE a \in InventoryAnswers : TRUE
          /\ srvCampaign = CHOOSE a \in CampaignAnswers : TRUE
          /\ ccsPc = "idle"
          /\ ccsRequest = NoCreateSessionRequest
          /\ envTenant = ""
       \/ /\ cartItems = <<>>
          /\ campaignAnswer = CHOOSE a \in CampaignAnswers : TRUE
          /\ catalogAnswer = CHOOSE r \in CatalogResponses : TRUE
          /\ srvPc = "received"
          /\ srvRequest \in ServerRequests
          /\ srvInventory \in InventoryAnswers
          /\ srvCampaign \in CampaignAnswers
          /\ ccsPc = "idle"
          /\ ccsRequest = NoCreateSessionRequest
          /\ envTenant \in EnvTenants
       \/ /\ cartItems = <<>>
          /\ campaignAnswer = CHOOSE a \in CampaignAnswers : TRUE
          /\ catalogAnswer = CHOOSE r \in CatalogResponses : TRUE
          /\ srvPc = "idle"
          /\ srvRequest = NoRequest
          /\ srvInventory = CHOOSE a \in InventoryAnswers : TRUE
          /\ srvCampaign = CHOOSE a \in CampaignAnswers : TRUE
          /\ ccsPc = "received"
          /\ ccsRequest \in CreateSessionRequests
          /\ envTenant \in EnvTenants

CheckoutNext ==
    \/ checkCampaignPrices
    \/ createCheckoutSession
    \/ CatalogAnswered
    \/ \E csrfToken \in {"", "csrf-1"} : CsrfAnswered(csrfToken)
    \/ \E response \in SessionResponses : SessionAnswered(response)
    \/ ServerCheckoutReceived
    \/ \E response \in SessionResponses : ServerBackendAnswered(response)
    \/ \E trackOutcome \in TrackOutcomes : ServerTrackAnswered(trackOutcome)
    \/ CreateSessionReceived
    \/ \E session \in StripeAnswers : StripeAnswered(session)
    \/ \E trackOutcome \in TrackOutcomes : CreateSessionTrackAnswered(trackOutcome)
    \/ \E event \in StripeEvents : WebhookReceived(event)
    \/ \E portalOutcome \in PortalOutcomes : WebhookPortalAnswered(portalOutcome)
    \/ \E sessionId \in SuccessSessionIds : CheckoutSuccess(sessionId)

SpecCheckout == CheckoutInit /\ [][CheckoutNext]_vars

-----------------------------------------------------------------------------
(* SpecBooking: createBooking is called with drawn booking data *)

BookingInit ==
    /\ AvailIdle
    /\ GenIdle
    /\ CheckoutIdle
    /\ ProxyIdle
    /\ CartIdle
    /\ FormIdle
    /\ bkPc = "called"
    /\ bookingData \in BookingDatas
    /\ bookingRequests = <<>>
    /\ bookingAnswer = NoBookingAnswer
    /\ bookingResult = NoBookingResult

BookingNext ==
    \/ createBooking
    \/ \E csrfToken \in {"", "csrf-1"} : BookingCsrfAnswered(csrfToken)
    \/ \E response \in BookingResponses : BookingAnswered(response)

SpecBooking == BookingInit /\ [][BookingNext]_vars

-----------------------------------------------------------------------------
(* SpecProxy: the proxy serves requests of two clients *)

ProxyInit ==
    /\ AvailIdle
    /\ GenIdle
    /\ CheckoutIdle
    /\ BookingIdle
    /\ ProxyIdle
    /\ CartIdle
    /\ FormIdle

ProxyNext ==
    \/ \E client \in Clients, kind \in ProxyKinds, sendsCookies \in BOOLEAN :
          ProxyReceived(client, kind, sendsCookies)
    \/ \E id \in 1..MaxProxyRequests, answer \in ProxyBackendAnswers : ProxyAnswered(id, answer)

SpecProxy == ProxyInit /\ [][ProxyNext]_vars

-----------------------------------------------------------------------------
(* SpecCart: the cart of a shop visit, from the empty cart *)

CartInit ==
    /\ AvailIdle
    /\ GenIdle
    /\ CheckoutIdle
    /\ BookingIdle
    /\ ProxyIdle
    /\ CartIdle
    /\ FormIdle

CartNext ==
    \/ \E product \in Products, quantity \in 1..MaxQuantity, outOfStock \in BOOLEAN :
          handleAddToCart(product, quantity, outOfStock)
    \/ \E product \in Products, answer \in CampaignAnswers : addToCart(product, answer)
    \/ \E id \in ProductIds : removeFromCart(id)
    \/ \E id \in ProductIds, quantity \in {0, 5} : updateQuantity(id, quantity)
    \/ \E step \in EffectSteps, answer \in CampaignAnswers : checkCampaignPricesEffect(step, answer)

SpecCart == CartInit /\ [][CartNext]_vars

-----------------------------------------------------------------------------
(* Properties of the fallback slot generator (checked under SpecSlots) *)

GenDoh == dayOpeningHours(genDate, genSettings)

GenCb == genSettings.calendarBehavior

GenClosing == closingMinutes(GenDoh, GenCb)

\* minutes after midnight at which the offered slots start
SlotStartMinutes(slots, date) == {slots[i].start - date * MinutesPerDay : i \in 1..Len(slots)}

GenOffered == SlotStartMinutes(genSlots, genDate)

\* the generator went through its loops (the day is neither closed nor unconfigured)
GenLooped ==
    /\ genPc = "done"
    /\ GenDoh.isOpen # "false"
    /\ startHour(GenDoh, GenCb) # NoHour

\* the candidates that survive the two closing-time checks
GenInHours ==
    {m \in candidateStarts(GenDoh, GenCb) :
        m < GenClosing /\ (m + genDuration) % MinutesPerDay < GenClosing}

Overlaps(slotStart, slotEnd, b) == slotStart < b.end /\ slotEnd > b.start

SettingsOf(entry, cb) ==
    [null |-> FALSE, openingHours |-> OpeningHoursOf(entry, UndefEntry), calendarBehavior |-> cb]

OpenDay(from, to) == [isOpen |-> "true", start |-> from, end |-> to]

\* C4: a date whose weekday entry has isOpen = false gets zero slots, whatever
\* the calendarBehavior values, the service duration and the bookings are.
C4_ClosedDayHasNoSlots ==
    (genPc = "done" /\ GenDoh.isOpen = "false") => genSlots = <<>>

\* C4 witness: a closed day on which calendarBehavior and the entry's own
\* start/end would both have given a window.
C4_Witness ==
    /\ genPc = "done"
    /\ GenDoh.isOpen = "false"
    /\ Truthy(GenDoh.start) /\ Truthy(GenDoh.end)
    /\ usesCalendarBehavior(GenCb)
    /\ genBookings.bookings # {}

\* C5: no offered slot ends exactly at closing time; 09:00-17:00 with a 60 minute
\* service never offers 16:00, and 09:00-10:00 with a 30 minute service and no
\* bookings offers 09:00 only.
C5_NoSlotEndsAtClosing ==
    /\ genPc = "done" =>
          \A i \in 1..Len(genSlots) :
              (genSlots[i].start - genDate * MinutesPerDay) + genDuration # GenClosing
    /\ genPc = "done" => 16 * 60 \notin SlotStartMinutes(
          generateTimeSlots(1, 60, {}, SettingsOf(OpenDay(<<9, 0>>, <<17, 0>>), NoCalendarBehavior)), 1)
    /\ genPc = "done" => SlotStartMinutes(
          generateTimeSlots(1, 30, {}, SettingsOf(OpenDay(<<9, 0>>, <<10, 0>>), NoCalendarBehavior)), 1)
          = {9 * 60}

\* C5 witness: slots were offered, and a candidate whose end is the closing time
\* was among those the loops visited.
C5_Witness ==
    /\ GenLooped
    /\ genSlots # <<>>
    /\ \E m \in candidateStarts(GenDoh, GenCb) :
          m + genDuration = GenClosing /\ m \notin GenOffered

\* C6: among the candidates inside the hours, a slot is left out exactly when it
\* overlaps a booking as half-open intervals (start < b.end and end > b.start);
\* a slot that only touches a booking (end = b.start or start = b.end) stays.
C6_HalfOpenOverlap ==
    GenLooped =>
        \A m \in GenInHours :
            LET slotStart == genDate * MinutesPerDay + m
                slotEnd   == slotStart + genDuration
            IN  /\ (\E b \in existingBookingsOf(genBookings) : Overlaps(slotStart, slotEnd, b))
                      => m \notin GenOffered
                /\ (\A b \in existingBookingsOf(genBookings) :
                        ~Overlaps(slotStart, slotEnd, b))
                      => m \in GenOffered

\* C6 witness: one booking that removes a slot and has an offered slot ending
\* exactly where it starts.
C6_Witness ==
    /\ GenLooped
    /\ \E b \in existingBookingsOf(genBookings) :
          /\ \E i \in 1..Len(genSlots) : genSlots[i].end = b.start
          /\ \E m \in GenInHours :
                /\ m \notin GenOffered
                /\ Overlaps(genDate * MinutesPerDay + m, genDate * MinutesPerDay + m + genDuration, b)

\* C7: the slots computed for a day are those computed from the answer with its
\* canceled bookings taken out; a canceled booking never removes a slot.
C7_CanceledNeverBlocks ==
    genPc = "done" =>
        LET confirmed == IF genBookings.success
                            THEN {b \in genAnswer : b.status # "canceled"}
                            ELSE {}
        IN  /\ genSlots = generateTimeSlots(genDate, genDuration, confirmed, genSettings)
            /\ GenLooped =>
                  \A m \in GenInHours :
                      (\A b \in confirmed :
                          ~Overlaps(genDate * MinutesPerDay + m,
                                    genDate * MinutesPerDay + m + genDuration, b))
                      => m \in GenOffered

\* C7 witness: the answer holds a canceled booking, and a slot it covers is offered.
C7_Witness ==
    /\ GenLooped
    /\ genBookings.success
    /\ \E b \in genAnswer :
          /\ b.status = "canceled"
          /\ \E i \in 1..Len(genSlots) : Overlaps(genSlots[i].start, genSlots[i].end, b)

\* the opening time of the hours the generator uses, in minutes after midnight
GenOpening ==
    IF usesDayHours(GenDoh) THEN GenDoh.start[1] * 60 + GenDoh.start[2]
    ELSE GenCb.startTime[1] * 60 + GenCb.startTime[2]

\* C8: every offered slot lies within the open hours; it starts at or after the
\* configured opening time (opening 09:30 never yields a 09:00 slot).
C8_SlotsWithinOpenHours ==
    GenLooped =>
        \A m \in GenOffered : m >= GenOpening /\ m + genDuration <= GenClosing

\* C24: the candidate start times the generator considers are startTime,
\* startTime + i, startTime + 2i, ... up to endTime for slot interval i, also
\* when i does not divide 60. Stated for hours that open on the full hour, over
\* the candidates before closing time.
C24_CandidatesStepByInterval ==
    (GenLooped /\ GenOpening % 60 = 0) =>
        {m \in candidateStarts(GenDoh, GenCb) : m < GenClosing}
            = {m \in GenOpening..(GenClosing - 1) : (m - GenOpening) % slotInterval(GenCb) = 0}

\* C29: no offered slot extends past closing time, also when start plus duration
\* crosses midnight: every offered slot's start in minutes from midnight plus the
\* service duration is below the closing time in minutes from midnight.
C29_NoSlotPastClosing ==
    GenLooped => \A m \in GenOffered : m + genDuration < GenClosing

-----------------------------------------------------------------------------
(* Properties of the availability resolver (checked under SpecAvail) *)

\* what one checkAvailability call, run alone, leaves in availableTimeSlots
resolvedSlots(date, serviceId, providerId, svcs, settings, w) ==
    IF date = NoDate \/ serviceId = "" \/ providerId = "" THEN <<>>
    ELSE IF \A i \in 1..Len(svcs) : svcs[i]._id # serviceId THEN <<>>
    ELSE LET service == svcs[CHOOSE i \in 1..Len(svcs) : svcs[i]._id = serviceId]
             availabilityResult == getProviderAvailability(w.availability[date])
             branch == providerBranch(availabilityResult)
         IN  IF branch = "slots"
                 THEN [i \in 1..Len(availabilityResult.availability.availableSlots) |->
                          providerSlot(date, availabilityResult.availability.availableSlots[i],
                                       durationOf(service))]
             ELSE IF branch = "fallback" /\ ~settings.null
                 THEN generateTimeSlots(date, durationOf(service),
                          existingBookingsOf(getBookings(w.bookings.ok, bookingsOfDay(w, date))),
                          settings)
             ELSE <<>>

\* C1: once every availability lookup has resolved, the slot list in UI state is
\* the result for the selection that is current, whatever the order of the
\* answers; the answer to a superseded selection never overwrites it.
C1_LatestSelectionWins ==
    lookups = {} =>
        availableTimeSlots =
            resolvedSlots(selectedDate, selectedService, selectedProvider,
                          services, bookingSettings, world)

\* the provider-availability service answers this lookup with isOpen: false
AnsweredClosed(l) ==
    LET response == world.availability[l.date]
    IN  /\ response.outcome = "ok"
        /\ response.success
        /\ response.availability.present
        /\ response.availability.isOpen = "false"

SettingsUnresolvable(response) ==
    \/ response.outcome # "ok"
    \/ ~response.success
    \/ response.settings.null
    \/ /\ \A i \in 1..7 : ~usesDayHours(response.settings.openingHours[DayNames[i]])
       /\ ~usesCalendarBehavior(response.settings.calendarBehavior)

\* C10: when no opening hours can be resolved and the provider-specific lookup
\* is unavailable, no slots are offered; none are generated from an assumed
\* default window.
C10_NoAssumedWindow ==
    (/\ SettingsUnresolvable(world.settings)
     /\ \A d \in Dates : ~getProviderAvailability(world.availability[d]).success)
        => availableTimeSlots = <<>>

\* C11: what the resolver hands to the time selection for a closed day differs
\* from what it hands over for an open day whose slots are all taken: a day
\* the provider answered as closed is not shown with the fully-booked message.
C11_ClosedShownApartFromFullyBooked ==
    (selectedDate # NoDate /\ lookups = {} /\ lastLog = "closed")
        => timeSelectionMessage(loadingSlots, availableTimeSlots) # FullyBookedMessage

\* the provider-specific lookup failed: no answer, a non-2xx status, or a body
\* that does not parse or lacks success or availability
LookupFailed(response) ==
    \/ response.outcome # "ok"
    \/ ~response.success
    \/ ~response.availability.present

\* C12: a failed provider-specific lookup makes the call go on to the bookings
\* fetch and the settings-based generation: the step that consumes the failure
\* keeps the lookup alive, clears nothing and reports nothing.
C12_FailedLookupFallsBack ==
    [][\A l \in lookups :
          (l.pc = "provider" /\ LookupFailed(world.availability[l.date]) /\ l \notin lookups') =>
              /\ [l EXCEPT !.pc = "bookings"] \in lookups'
              /\ availableTimeSlots' = availableTimeSlots
              /\ lastLog' = lastLog]_vars

\* C12 witness: the provider-availability request was rejected by the network and
\* the slots shown were generated from the booking settings.
C12_Witness ==
    /\ lookups = {}
    /\ selectedDate # NoDate
    /\ world.availability[selectedDate].outcome = "networkError"
    /\ lastLog = "generated"
    /\ usingGeneralHours
    /\ Len(availableTimeSlots) > 0

\* C19: at most one refreshServicesAndProviders call is in flight at any time; a
\* timer tick, a visibility-regained event or a window-focus event that arrives
\* while a refresh is running starts no second one.
C19_OneRefreshInFlight == Cardinality(refreshes) <= 1

\* the answers a refresh is about to receive name the ids of the previous snapshot
SameIds ==
    LET servicesResult == getBookingServices(ServicesResponse)
        providersResult == getBookingProviders(ProvidersResponse)
    IN  /\ Ids(IF servicesResult.success THEN servicesResult.services ELSE <<>>) = Ids(servicesRef)
        /\ Ids(IF providersResult.success THEN providersResult.providers ELSE <<>>) = Ids(providersRef)

\* C20: a non-initial refresh whose fetched service ids and provider ids equal
\* those of the previous snapshot updates no state: services, providers, booking
\* settings and the slot state stay as they were, however often it is repeated.
C20_UnchangedRefreshUpdatesNothing ==
    [][\A r \in refreshes :
          (~r.isInitialLoad /\ SameIds /\ r \notin refreshes') =>
              UNCHANGED <<catalogVars, selectionVars, slotVars>>]_vars

C20_Witness ==
    /\ lastRefresh = "skipped"
    /\ refreshesStarted >= 2
    /\ selectedDate # NoDate
    /\ selectedService # ""
    /\ selectedProvider # ""
    /\ services # <<>>

-----------------------------------------------------------------------------
(* Properties of the checkout (checked under SpecCheckout) *)

\* the item has no variant id (article number) after catalog resolution
Unresolved(item) ==
    /\ item.articleNumber = ""
    /\ item.variantId = ""
    /\ fetchProductArticleNumber(getCheckoutPriceId(item), item.productId, catalogAnswer) = ""

SessionGranted(response) ==
    /\ response.outcome = "answered"
    /\ response.status \in 200..299
    /\ response.format = "json"
    /\ ~response.body.null
    /\ response.body.success = "true"
    /\ response.body.checkoutUrl # ""

\* C3: createCheckoutSession reports success, and the browser is sent to the
\* checkout URL, exactly when the session service's response has a 2xx status,
\* a JSON body with success true and a non-empty checkout URL; otherwise the
\* result is a failure and the page is not left. POST /api/checkout answers
\* success under the same three conditions on the backend's response.
C3_SuccessIffSessionGranted ==
    /\ locationHref # "" => coPc = "done"
    /\ (coPc = "done" /\ sessionAnswer # NoAnswer)
           => /\ coResult.success <=> SessionGranted(sessionAnswer)
              /\ locationHref # "" <=> SessionGranted(sessionAnswer)
              /\ SessionGranted(sessionAnswer) => locationHref = sessionAnswer.body.checkoutUrl
    /\ (srvPc = "responded" /\ backendAnswer # NoAnswer)
           => /\ srvResponse.success <=> SessionGranted(backendAnswer)
              /\ SessionGranted(backendAnswer) => srvResponse.checkoutUrl = backendAnswer.body.checkoutUrl

\* C3 witness: a session was granted and the browser was sent to its checkout URL.
C3_Witness ==
    /\ coPc = "done"
    /\ SessionGranted(sessionAnswer)
    /\ coResult.success
    /\ locationHref = CheckoutUrl

\* the campaign-price lookup failed: no answer, a non-2xx status, or no JSON
CampaignFailed(answer) == answer.outcome # "ok"

\* the request passes the checks that precede the campaign step
Admitted(request, inventory) ==
    /\ Len(request.items) > 0
    /\ request.successUrl # ""
    /\ request.cancelUrl # ""
    /\ refusedByInventory(request.items, inventory) = 0

\* C13: when the campaign-price lookup fails, the checkout goes on to session
\* creation and every item is sent with its original price id. On the server:
\* an admitted request is forwarded with item.stripePriceId unchanged. In the
\* browser: the checkout price id of a checked item is its own priceId, and so
\* is the stripePriceId of every payload item.
C13_CampaignFailureKeepsPrice ==
    /\ (srvPc \in {"forwarded", "registering", "responded"} /\ CampaignFailed(srvCampaign)
        /\ Admitted(srvRequest, srvInventory))
           => /\ Len(backendRequests) = 1
              /\ Len(backendRequests[1].items) = Len(srvRequest.items)
              /\ \A i \in 1..Len(srvRequest.items) :
                     backendRequests[1].items[i].stripePriceId = srvRequest.items[i].stripePriceId
    /\ CampaignFailed(campaignAnswer)
           => /\ \A i \in 1..Len(cartItems) : getCheckoutPriceId(cartItems[i]) = cartItems[i].priceId
              /\ \A r \in 1..Len(sessionRequests) :
                     \A i \in 1..Len(sessionRequests[r].items) :
                         sessionRequests[r].items[i].stripePriceId = cartItems[i].priceId

\* C13 witness: the campaign endpoint answered 5xx (with a body naming a campaign
\* price) and the request was forwarded with the original price of a product item.
C13_Witness ==
    /\ srvPc = "forwarded"
    /\ srvCampaign.outcome = "http500"
    /\ srvCampaign.priceId # ""
    /\ Len(backendRequests) = 1
    /\ \E i \in 1..Len(srvRequest.items) :
           /\ srvRequest.items[i].productId # ""
           /\ backendRequests[1].items[i].stripePriceId = srvRequest.items[i].stripePriceId


\* the registration of the session that was created has ended in a failure
RegistrationFailed ==
    /\ Len(trackRequests) > 0
    /\ trackRequests[Len(trackRequests)].outcome \in {"throws", "non2xx", "successFalse"}

\* C14: when the cart-tracking registration fails (it throws, answers non-2xx or
\* answers success=false), either checkout endpoint still answers with the
\* created session's id and checkout URL as a success, the same answer it gives
\* when the registration succeeds.
C14_RegistrationFailureKeepsSuccess ==
    /\ (srvPc = "responded" /\ Len(trackRequests) > 0) =>
           /\ srvResponse.status = 200
           /\ srvResponse.success
           /\ srvResponse.sessionId = backendAnswer.body.sessionId
           /\ srvResponse.checkoutUrl = backendAnswer.body.checkoutUrl
           /\ srvResponse.sessionId = trackRequests[Len(trackRequests)].sessionId
    /\ (ccsPc = "responded" /\ Len(trackRequests) > 0) =>
           ccsResponse = [status |-> 200, error |-> "", sessionId |-> ccsSession.id,
                          url |-> ccsSession.url]

C14_Witness ==
    /\ srvPc = "responded"
    /\ RegistrationFailed
    /\ srvResponse.success
    /\ srvResponse.checkoutUrl = CheckoutUrl

\* a registration carrying the session id is among the POSTs to /api/carts/track
Registered(sessionId) ==
    \E i \in 1..Len(trackRequests) : trackRequests[i].sessionId = sessionId

\* C15: every checkout session that was created has a registration carrying its
\* id sent to the cart-tracking service before its checkout URL is handed out
\* (by the browser's redirect or by an endpoint's response), and no registration
\* is sent when the creation failed.
C15_CreatedSessionIsRegistered ==
    /\ locationHref # "" => Registered(sessionAnswer.body.sessionId)
    /\ (srvPc = "responded" /\ srvResponse.success) => Registered(srvResponse.sessionId)
    /\ (ccsPc = "responded" /\ ccsResponse.status = 200) => Registered(ccsResponse.sessionId)
    /\ Len(trackRequests) > 0 =>
           \/ srvPc \in {"registering", "responded"} /\ sessionCreated(backendAnswer)
           \/ ccsPc \in {"registering", "responded"} /\ ccsSession.created

\* C16: every registration that failed - it threw, was answered non-2xx, or was
\* answered with success=false - has left an error log entry about the
\* registration.
C16_FailedRegistrationIsLogged ==
    RegistrationFailed =>
        srvErrors \cap {"Error registering session", "Failed to register session"} # {}

\* the stock refusals the session service words
UpstreamStockMessages == {"Out of stock", "Insufficient stock"}

\* the messages that tell of stock
StockRelated(message) ==
    message \in UpstreamStockMessages
        \cup {"Produkten ar tyvarr slutsald.", "Lagerproblem: Insufficient stock",
              "Product is out of stock", "Insufficient stock for product. Available: 1"}

\* C17: every stock-related rejection message handed to the user is, character
\* for character, the message the upstream session service produced; the
\* orchestrator neither rewrites it nor composes stock rejections of its own.
C17_StockMessageVerbatim ==
    /\ (coPc = "done" /\ StockRelated(coResult.error)) =>
           /\ sessionAnswer.outcome = "answered"
           /\ coResult.error = sessionAnswer.body.error
    /\ (srvPc = "responded" /\ StockRelated(srvResponse.error)) =>
           /\ backendAnswer.outcome = "answered"
           /\ srvResponse.error = backendAnswer.body.error

-----------------------------------------------------------------------------
(* Properties of createBooking (checked under SpecBooking) *)

\* C18: createBooking returns a result flagged as conflict exactly when the
\* bookings service answered 409, returns success only for a 2xx answer whose
\* body reports success, and returns every other failure (validation 4xx, 5xx,
\* network error, missing CSRF token) without the conflict flag.
C18_ConflictExactlyOn409 ==
    bkPc = "returned" =>
        /\ bookingResult.conflict <=>
               (bookingAnswer.outcome = "answered" /\ bookingAnswer.status = 409)
        /\ bookingResult.success =>
               /\ bookingAnswer.outcome = "answered"
               /\ responseOk(bookingAnswer)
               /\ bookingAnswer.body.success = "true"
        /\ bookingResult.success => ~bookingResult.conflict

\* the article number a search of the listing by product id yields, "" for none
productPass(productId, products) ==
    LET matching == {i \in 1..Len(products) :
                        /\ productId # ""
                        /\ products[i].id = productId
                        /\ Len(products[i].variants) > 0
                        /\ products[i].variants[1].articleNumber # ""}
    IN  IF matching = {} THEN "" ELSE products[Least(matching)].variants[1].articleNumber

\* the article number a search of the listing by price id yields, "" for none
pricePass(stripePriceId, products) ==
    LET variants == allVariants(products)
        matching == {i \in 1..Len(variants) :
                        variants[i].stripePriceId = stripePriceId /\ variants[i].articleNumber # ""}
    IN  IF matching = {} THEN "" ELSE variants[Least(matching)].articleNumber

\* the catalog lookups of the cart have been answered with a listing
CatalogSearched ==
    /\ coPc \in {"csrf", "posted", "done"}
    /\ catalogAnswer.outcome = "ok"
    /\ catalogAnswer.success

\* C25: for an item without a variant id the catalog is searched by price id
\* first and by product id second, and the product-id pass is attempted whenever
\* the price-id pass yielded no usable (non-empty) article number: an item is
\* left without article number only when neither pass can give one.
C25_ProductPassAfterUnusablePricePass ==
    CatalogSearched =>
        \A i \in 1..Len(cartItems) :
            (cartItems[i].variantId = "" /\ cartItems[i].articleNumber = "") =>
                /\ pricePass(getCheckoutPriceId(cartItems[i]), catalogAnswer.products) = ""
                /\ productPass(cartItems[i].productId, catalogAnswer.products) = ""

\* C23: every item POST /api/checkout forwards to the session service carries
\* the variant id the caller supplied for that item; a request with an item that
\* has none is refused and never forwarded under the product id or a generated
\* placeholder.
C23_ForwardedItemsCarrySuppliedVariant ==
    \A r \in 1..Len(backendRequests) :
        \A i \in 1..Len(backendRequests[r].items) :
            /\ srvRequest.items[i].variantKey # ""
            /\ backendRequests[r].items[i].variantId = srvRequest.items[i].variantKey

\* C21: every request sent to a collaborator service carries the tenant header
\* with the configured tenant: the browser's requests the tenant of API_CONFIG,
\* the server's requests the tenant of the environment, none a literal of the
\* call site.
C21_RequestsCarryConfiguredTenant ==
    /\ \A i \in 1..Len(sessionRequests) : sessionRequests[i].tenant = API_CONFIG_TENANT
    /\ \A i \in 1..Len(backendRequests) : backendRequests[i].tenant = TENANT(envTenant)
    /\ \A i \in 1..Len(trackRequests) : trackRequests[i].tenant = TENANT(envTenant)
    /\ \A i \in 1..Len(paymentEvents) :
           paymentEvents[i].tenant = IF paymentEvents[i].via = "webhook" THEN TENANT(envTenant)
                                     ELSE API_CONFIG_TENANT

\* the session was registered as pending with the cart-tracking service
RegisteredAsPending(sessionId) ==
    \E i \in 1..Len(trackRequests) :
        trackRequests[i].sessionId = sessionId /\ trackRequests[i].outcome = "ok"

\* C26: a 'completed' payment event for a session id is reported to the portal
\* only for a session this system created and registered as pending before; none
\* is sent for a session id that was never registered.
C26_CompletedOnlyForRegistered ==
    \A i \in 1..Len(paymentEvents) :
        paymentEvents[i].status = "completed" => RegisteredAsPending(paymentEvents[i].sessionId)

-----------------------------------------------------------------------------
(* Properties of the proxy (checked under SpecProxy) *)

\* C22: upstream session cookies the proxy obtained while serving one client's
\* request are never attached to a request it forwards on behalf of a different
\* client, under any interleaving of the clients' requests.
C22_NoCookieAcrossClients ==
    \A i \in 1..Len(proxyForwarded) :
        \A c \in proxyForwarded[i].cookie : c.session = proxyForwarded[i].client

-----------------------------------------------------------------------------
(* Properties of the cart (checked under SpecCart) *)

\* the cart entries of a product id
entriesOf(id) == {i \in 1..Len(cartItems) : cartItems[i].id = id}

\* C30: the addToCart calls for one product, issued without awaiting one another,
\* leave exactly one cart entry for it whose quantity is the number of calls that
\* have applied their update, whatever the order of their campaign lookups and of
\* removeFromCart and updateQuantity calls for other products; once no call is
\* awaiting, the quantity has grown by the number of calls issued.
C30_OneEntryGrownByCalls ==
    \A id \in ProductIds \ changedById :
        LET applied == addsIssued[id] - addsAwaiting[id]
        IN  IF applied = 0 THEN entriesOf(id) = {}
            ELSE /\ Cardinality(entriesOf(id)) = 1
                 /\ \A i \in entriesOf(id) : cartItems[i].quantity = applied

\* two calls for p1 have both applied their update while another product was
\* removed from the cart
C30_Witness ==
    /\ addsIssued["p1"] = 2
    /\ addsAwaiting["p1"] = 0
    /\ "p1" \notin changedById
    /\ changedById # {}
    /\ \E i \in 1..Len(cartItems) : cartItems[i].id = "p1" /\ cartItems[i].quantity = 2

-----------------------------------------------------------------------------
(* Properties of the booking form (checked under SpecForm) *)

\* C27: at the moment a booking request is sent, the selected start time is one
\* of the slots offered at that moment for the selected date, service and
\* provider; a time chosen before the service, the provider or the date changed,
\* or before the slot list was recomputed without it, cannot be submitted.
C27_SubmittedTimeIsOffered ==
    \A i \in 1..Len(bookingCalls) : bookingCalls[i].startTime \in bookingCalls[i].offered

-----------------------------------------------------------------------------
(* Properties of the polling refresh (checked under SpecPolling) *)

\* C28: after every successful polling refresh the booking settings and the
\* service data used for slot generation are the ones that refresh fetched, so
\* that a change of the opening hours or of a service's duration that leaves the
\* sets of service and provider ids as they were is picked up by the next refresh.
C28_RefreshStoresFetched ==
    [][\A r \in refreshes :
          (r \notin refreshes' /\ getBookingSettings(world.settings).success) =>
              /\ bookingSettings' = storedSettings(getBookingSettings(world.settings))
              /\ services' = getBookingServices(ServicesResponse).services]_vars
====
